---- MODULE Spec2Model ----
(***************************************************************************)
(* Ingredient-name normalisation, product/recipe/ingredient matching and   *)
(* match persistence of the ETL scripts, modelled from                     *)
(*   src/scripts/transform/match_ingredients.py              (prefix mi_)  *)
(*   src/scripts/transform/match_products_with_ingredients.py (prefix mp_) *)
(*   src/scripts/load/match_recipes_with_ingredients.py       (prefix mr_) *)
(*   src/scripts/transform/link_ingredients.py                (prefix li_) *)
(*   src/scripts/load/load_recipes_and_ingredients.py         (prefix lr_) *)
(*   src/scripts/extract/scrape_marmiton.py               (parse_ingredient) *)
(*   src/scripts/extract/scrape_marmiton_ingredients.py     (RateLimiter)  *)
(*                                                                         *)
(* A Python str is a sequence of one-character tokens ("a", " ", ":"); a   *)
(* non-ASCII character is the token of its code point ("U+00E9" is e       *)
(* acute).                                                                 *)
(* None is the one-token sequence NoneVal, a raised exception is Raised.   *)
(***************************************************************************)
EXTENDS Integers, Sequences, FiniteSets, TLC

(***************************************************************************)
(* Python str primitives                                                   *)
(***************************************************************************)
NoneVal == <<"<None>">>

Raised == <<"<raised>">>

Whitespace == {" ", "\t"}

IsSpace(c) == c \in Whitespace

LowerOf ==
    ("A" :> "a") @@ ("B" :> "b") @@ ("C" :> "c") @@ ("D" :> "d") @@ ("E" :> "e") @@
    ("F" :> "f") @@ ("G" :> "g") @@ ("H" :> "h") @@ ("I" :> "i") @@ ("J" :> "j") @@
    ("K" :> "k") @@ ("L" :> "l") @@ ("M" :> "m") @@ ("N" :> "n") @@ ("O" :> "o") @@
    ("P" :> "p") @@ ("Q" :> "q") @@ ("R" :> "r") @@ ("S" :> "s") @@ ("T" :> "t") @@
    ("U" :> "u") @@ ("V" :> "v") @@ ("W" :> "w") @@ ("X" :> "x") @@ ("Y" :> "y") @@
    ("Z" :> "z") @@ ("U+00C9" :> "U+00E9") @@ ("U+00C8" :> "U+00E8") @@ ("U+00C0" :> "U+00E0") @@ ("U+00C2" :> "U+00E2")

Letters ==
    {"a", "b", "c", "d", "e", "f", "g", "h", "i", "j", "k", "l", "m", "n", "o",
     "p", "q", "r", "s", "t", "u", "v", "w", "x", "y", "z",
     "U+00E0", "U+00E2", "U+00E4", "U+00E9", "U+00E8", "U+00EA", "U+00EB", "U+00EF", "U+00EE", "U+00F4", "U+00F6", "U+00F9", "U+00FB", "U+00FC", "U+00FF",
     "U+00E7", "U+00E6", "U+0153"}

Digits == {"0", "1", "2", "3", "4", "5", "6", "7", "8", "9"}

\* str.isalpha() of one character
IsAlpha(c) == c \in Letters \/ c \in DOMAIN LowerOf

Range(s) == {s[i] : i \in 1..Len(s)}

\* str.lower()
Lower(s) == [i \in 1..Len(s) |-> IF s[i] \in DOMAIN LowerOf THEN LowerOf[s[i]] ELSE s[i]]

RECURSIVE LStrip(_)
LStrip(s) == IF s # <<>> /\ IsSpace(Head(s)) THEN LStrip(Tail(s)) ELSE s

RECURSIVE RStrip(_)
RStrip(s) ==
    IF s # <<>> /\ IsSpace(s[Len(s)]) THEN RStrip(SubSeq(s, 1, Len(s) - 1)) ELSE s

\* str.strip()
Strip(s) == RStrip(LStrip(s))

RECURSIVE SplitWs(_, _, _)
SplitWs(s, cur, acc) ==
    IF s = <<>>
    THEN IF cur = <<>> THEN acc ELSE Append(acc, cur)
    ELSE IF IsSpace(Head(s))
         THEN SplitWs(Tail(s), <<>>, IF cur = <<>> THEN acc ELSE Append(acc, cur))
         ELSE SplitWs(Tail(s), Append(cur, Head(s)), acc)

\* str.split(): the maximal runs of non-whitespace characters
Words(s) == SplitWs(s, <<>>, <<>>)

RECURSIVE Join(_, _)
Join(parts, sep) ==
    IF parts = <<>> THEN <<>>
    ELSE IF Len(parts) = 1 THEN parts[1]
         ELSE parts[1] \o sep \o Join(Tail(parts), sep)

\* ' '.join(s.split()), also re.sub(r'\s+', ' ', s).strip()
Collapse(s) == Join(Words(s), <<" ">>)

\* str.find(c) + 1: the index of the first c, 0 when there is none
Find(s, c) ==
    IF c \in Range(s) THEN CHOOSE i \in 1..Len(s) : s[i] = c /\ \A k \in 1..(i - 1) : s[k] # c
    ELSE 0

\* s.split(c, 1)[1], for a string that holds c
AfterFirst(s, c) == SubSeq(s, Find(s, c) + 1, Len(s))

RECURSIVE SplitOn(_, _, _, _)
SplitOn(s, seps, cur, acc) ==
    IF s = <<>> THEN Append(acc, cur)
    ELSE IF Head(s) \in seps
         THEN SplitOn(Tail(s), seps, <<>>, Append(acc, cur))
         ELSE SplitOn(Tail(s), seps, Append(cur, Head(s)), acc)

\* s.split(c), and re.split('[...]', s) for a set of separators: empty parts kept
Split(s, seps) == SplitOn(s, seps, <<>>, <<>>)

\* s.replace(c, d) for every c of a set
ReplaceAll(s, cs, d) == [i \in 1..Len(s) |-> IF s[i] \in cs THEN d ELSE s[i]]

\* s.startswith(p)
StartsWith(s, p) == Len(s) >= Len(p) /\ SubSeq(s, 1, Len(p)) = p

\* n in h, for two strings: the empty string is in every string
Contains(h, n) == \E i \in 0..(Len(h) - Len(n)) : SubSeq(h, i + 1, i + Len(n)) = n

\* The start of the whitespace run that ends right before index j
WsRunStart(s, j) ==
    CHOOSE i \in 1..j : /\ \A k \in i..(j - 1) : IsSpace(s[k])
                        /\ (i = 1 \/ ~IsSpace(s[i - 1]))

(***************************************************************************)
(* The normalisers                                                         *)
(***************************************************************************)
\* match_ingredients.py: prefix first, then lower, strip, separators, collapse
mi_normalize_ingredient_name(name) ==
    IF name = NoneVal \/ name = <<>> THEN <<>>
    ELSE LET a == IF ":" \in Range(name) THEN AfterFirst(name, ":") ELSE name
             b == Strip(Lower(a))
             c == ReplaceAll(b, {"-", "_"}, " ")
         IN  Collapse(c)

\* match_products_with_ingredients.py: lower, strip, collapse, then prefix
mp_normalize_ingredient_name(name) ==
    IF name = NoneVal \/ name = <<>> THEN <<>>
    ELSE LET a == Collapse(Strip(Lower(name)))
         IN  IF ":" \in Range(a) THEN AfterFirst(a, ":") ELSE a

Articles ==
    << <<"d", "'">>, <<"d", "e", " ">>, <<"d", "u", " ">>, <<"l", "a", " ">>,
       <<"l", "e", " ">>, <<"l", "e", "s", " ">>, <<"u", "n", " ">>,
       <<"u", "n", "e", " ">>, <<"d", "e", "s", " ">> >>

\* One pass over the article list, each article stripped at most once, in order
RECURSIVE StripArticles(_, _)
StripArticles(name, k) ==
    IF k > Len(Articles) THEN name
    ELSE StripArticles(IF StartsWith(name, Articles[k])
                       THEN SubSeq(name, Len(Articles[k]) + 1, Len(name))
                       ELSE name,
                       k + 1)

\* match_recipes_with_ingredients.py: lower, strip, collapse, leading articles
mr_normalize_ingredient_name(name) ==
    IF name = NoneVal \/ name = <<>> THEN <<>>
    ELSE Strip(StripArticles(Collapse(Strip(Lower(name))), 1))

\* re.sub(r'\s*\(.*?\)\s*$', '', s): from the whitespace before the first "("
\* to the end, when the string ends with ")" and optional whitespace
RemoveParenSuffix(s) ==
    LET t == RStrip(s)
    IN  IF t # <<>> /\ t[Len(t)] = ")" /\ "(" \in Range(SubSeq(t, 1, Len(t) - 1))
        THEN SubSeq(s, 1, WsRunStart(s, Find(s, "(")) - 1)
        ELSE s

\* re.sub(r'\s*-.*?$', '', s): from the whitespace before the first "-" on
RemoveDashSuffix(s) ==
    IF "-" \in Range(s) THEN SubSeq(s, 1, WsRunStart(s, Find(s, "-")) - 1) ELSE s

\* re.sub(r'[^a-z0-9\s...]', '', s)
RECURSIVE KeepAlnumSpace(_)
KeepAlnumSpace(s) ==
    IF s = <<>> THEN <<>>
    ELSE IF Head(s) \in Letters \cup Digits \cup Whitespace
         THEN <<Head(s)>> \o KeepAlnumSpace(Tail(s))
         ELSE KeepAlnumSpace(Tail(s))

\* link_ingredients.py: no None test, name.lower() raises on None
li_normalize_ingredient_name(name) ==
    IF name = NoneVal THEN Raised
    ELSE Collapse(KeepAlnumSpace(RemoveDashSuffix(RemoveParenSuffix(Strip(Lower(name))))))

\* load_recipes_and_ingredients.py: name.strip().lower(), nothing else, and
\* name.strip() raises on None
lr_normalize_ingredient_name(name) ==
    IF name = NoneVal THEN Raised ELSE Lower(Strip(name))

(***************************************************************************)
(* SQLite rows, ordering and scores                                        *)
(***************************************************************************)
\* The Unicode code point of a character: SQLite's BINARY collation orders
\* UTF-8 text as its code points
CodePoint ==
    (" " :> 32) @@ ("'" :> 39) @@ ("(" :> 40) @@ (")" :> 41) @@ ("," :> 44) @@
    ("-" :> 45) @@ ("." :> 46) @@ ("0" :> 48) @@ ("1" :> 49) @@ ("2" :> 50) @@
    ("3" :> 51) @@ ("4" :> 52) @@ ("5" :> 53) @@ ("6" :> 54) @@ ("7" :> 55) @@
    ("8" :> 56) @@ ("9" :> 57) @@ (":" :> 58) @@ (";" :> 59) @@ ("A" :> 65) @@
    ("B" :> 66) @@ ("C" :> 67) @@ ("D" :> 68) @@ ("E" :> 69) @@ ("F" :> 70) @@
    ("G" :> 71) @@ ("H" :> 72) @@ ("I" :> 73) @@ ("J" :> 74) @@ ("K" :> 75) @@
    ("L" :> 76) @@ ("M" :> 77) @@ ("N" :> 78) @@ ("O" :> 79) @@ ("P" :> 80) @@
    ("Q" :> 81) @@ ("R" :> 82) @@ ("S" :> 83) @@ ("T" :> 84) @@ ("U" :> 85) @@
    ("V" :> 86) @@ ("W" :> 87) @@ ("X" :> 88) @@ ("Y" :> 89) @@ ("Z" :> 90) @@
    ("_" :> 95) @@ ("a" :> 97) @@ ("b" :> 98) @@ ("c" :> 99) @@ ("d" :> 100) @@
    ("e" :> 101) @@ ("f" :> 102) @@ ("g" :> 103) @@ ("h" :> 104) @@ ("i" :> 105) @@
    ("j" :> 106) @@ ("k" :> 107) @@ ("l" :> 108) @@ ("m" :> 109) @@ ("n" :> 110) @@
    ("o" :> 111) @@ ("p" :> 112) @@ ("q" :> 113) @@ ("r" :> 114) @@ ("s" :> 115) @@
    ("t" :> 116) @@ ("u" :> 117) @@ ("v" :> 118) @@ ("w" :> 119) @@ ("x" :> 120) @@
    ("y" :> 121) @@ ("z" :> 122) @@ ("|" :> 124) @@ ("\t" :> 9) @@
    ("U+00E0" :> 224) @@ ("U+00E2" :> 226) @@ ("U+00E4" :> 228) @@
    ("U+00E9" :> 233) @@ ("U+00E8" :> 232) @@ ("U+00EA" :> 234) @@
    ("U+00EB" :> 235) @@ ("U+00EF" :> 239) @@ ("U+00EE" :> 238) @@
    ("U+00F4" :> 244) @@ ("U+00F6" :> 246) @@ ("U+00F9" :> 249) @@
    ("U+00FB" :> 251) @@ ("U+00FC" :> 252) @@ ("U+00FF" :> 255) @@
    ("U+00E7" :> 231) @@ ("U+00E6" :> 230) @@ ("U+0153" :> 339) @@
    ("U+00C9" :> 201) @@ ("U+00C8" :> 200) @@ ("U+00C0" :> 192) @@
    ("U+00C2" :> 194)

RECURSIVE StrLess(_, _)
StrLess(a, b) ==
    IF b = <<>> THEN FALSE
    ELSE IF a = <<>> THEN TRUE
         ELSE IF Head(a) = Head(b) THEN StrLess(Tail(a), Tail(b))
              ELSE CodePoint[Head(a)] < CodePoint[Head(b)]

\* A score is the fraction <<numerator, denominator>>: 1.0, 0.8, 0.0
One == <<1, 1>>

PointEight == <<4, 5>>

Zero == <<0, 1>>

MatchRecord(source, ingredient, score, method) ==
    [src |-> source, ing |-> ingredient, score |-> score, method |-> method]

RECURSIVE Concat(_)
Concat(seqs) == IF seqs = <<>> THEN <<>> ELSE Head(seqs) \o Concat(Tail(seqs))

RECURSIVE SelectSeq2(_, _, _)
SelectSeq2(s, Test(_, _), arg) ==
    IF s = <<>> THEN <<>>
    ELSE (IF Test(Head(s), arg) THEN <<Head(s)>> ELSE <<>>) \o SelectSeq2(Tail(s), Test, arg)

NonEmpty(s) == s # <<>>

\* The permutations of 1..n, as the orders a SELECT without ORDER BY may use
Perms(n) == {f \in [1..n -> 1..n] : \A i, j \in 1..n : i # j => f[i] # f[j]}

(***************************************************************************)
(* match_ingredients.py: the batched product matcher                       *)
(***************************************************************************)
bad_patterns ==
    { <<"d", "e", " ">>, <<"d", "u", " ">>, <<"d", "e", "s", " ">>, <<"l", "a", " ">>,
      <<"l", "e", " ">>, <<"l", "e", "s", " ">>, <<"o", "u", " ">>, <<"e", "t", " ">>,
      <<"a", "u", " ">>, <<"a", "u", "x", " ">>, <<"p", "o", "u", "r", " ">>,
      <<"a", "v", "e", "c", " ">>, <<"f", "r", "a", "i", "s">>,
      <<"s", "U+00E9", "c", "h", "U+00E9">>, <<"c", "o", "n", "g", "e", "l", "U+00E9">>,
      <<"s", "u", "r", "g", "e", "l", "U+00E9">>, <<"p", "e", "l", "U+00E9">>,
      <<"h", "a", "c", "h", "U+00E9">>, <<"c", "o", "u", "p", "U+00E9">>,
      <<"r", "U+00E2", "p", "U+00E9">>, <<"m", "o", "u", "l", "u">>,
      <<"e", "n", "t", "i", "e", "r">>, <<"b", "o", "U+00EE", "t", "e">>,
      <<"b", "o", "c", "a", "l">>, <<"s", "a", "c", "h", "e", "t">>,
      <<"p", "a", "q", "u", "e", "t">>, <<"t", "a", "i", "l", "l", "e">>,
      <<"m", "o", "y", "e", "n", "n", "e">>, <<"m", "o", "y", "e", "n">>,
      <<"g", "r", "o", "s", "s", "e">>, <<"g", "r", "o", "s">>,
      <<"f", "a", "c", "u", "l", "t", "a", "t", "i", "f">>,
      <<"o", "p", "t", "i", "o", "n", "n", "e", "l">>, <<"c", "h", "o", "i", "x">>,
      <<"p", "r", "U+00E9", "f", "U+00E9", "r", "e", "n", "c", "e">> }

is_simple_ingredient(name) ==
    /\ name # NoneVal
    /\ Len(name) >= 3
    /\ Len(Words(name)) <= 3
    /\ ~(Len(Words(name)) > 1 /\ \E p \in bad_patterns : Contains(Lower(name), p))
    /\ \E i \in 1..Len(name) : IsAlpha(name[i])

\* The tags of one product row: split on commas, stripped, normalised, the
\* empty ones dropped
mi_product_tags(tags) ==
    LET raw == Split(tags, {","})
        norm == [k \in 1..Len(raw) |-> mi_normalize_ingredient_name(Strip(raw[k]))]
    IN  SelectSeq(norm, NonEmpty)

\* The body of "for ingredient in ingredients" for one product and ingredient
mi_match_ingredient(code, ingredient, product_tags) ==
    LET ingredient_name_norm == mi_normalize_ingredient_name(ingredient.name)
    IN  IF \E k \in 1..Len(product_tags) : product_tags[k] = ingredient_name_norm
        THEN << MatchRecord(code, ingredient.id, One, "exact") >>
        ELSE IF /\ \E k \in 1..Len(product_tags) :
                       \/ Contains(product_tags[k], ingredient_name_norm)
                       \/ Contains(ingredient_name_norm, product_tags[k])
                /\ Len(ingredient_name_norm) >= 4
             THEN << MatchRecord(code, ingredient.id, PointEight, "partial") >>
             ELSE <<>>

\* The records one product adds to matches, in the order of ingredients
mi_match_product(product, ingredients) ==
    LET product_tags == mi_product_tags(product.tags)
    IN  IF product_tags = <<>> THEN <<>>
        ELSE Concat([k \in 1..Len(ingredients) |->
                        mi_match_ingredient(product.code, ingredients[k], product_tags)])

(***************************************************************************)
(* match_products_with_ingredients.py: the one-batch product matcher       *)
(***************************************************************************)
\* A dict is the sequence of its <<key, value>> items in insertion order
DictHas(d, k) == \E i \in 1..Len(d) : d[i][1] = k

\* d.get(k): 0 stands for None
DictGet(d, k) == IF DictHas(d, k) THEN d[CHOOSE i \in 1..Len(d) : d[i][1] = k][2] ELSE 0

\* d.setdefault(k, v): a known key keeps its value
DictSetDefault(d, k, v) == IF DictHas(d, k) THEN d ELSE Append(d, <<k, v>>)

\* d[k] = v: a new key goes last, a known key keeps its place
DictSet(d, k, v) ==
    IF DictHas(d, k) THEN [i \in 1..Len(d) |-> IF d[i][1] = k THEN <<k, v>> ELSE d[i]]
    ELSE Append(d, <<k, v>>)

\* The first item of d, in iteration order, whose key passes Test against
\* the mention; 0 when none does
RECURSIVE FirstHit(_, _, _)
FirstHit(d, Test(_, _), mention) ==
    IF d = <<>> THEN 0
    ELSE IF Test(Head(d)[1], mention) THEN Head(d)[2] ELSE FirstHit(Tail(d), Test, mention)

\* The loop "for ing_id, name in ingredients: ... map[normalized] = ing_id"
RECURSIVE BuildMap(_, _, _)
BuildMap(rows, normalize(_), acc) ==
    IF rows = <<>> THEN acc
    ELSE LET normalized == normalize(Head(rows).name)
         IN  BuildMap(Tail(rows), normalize,
                      IF normalized # <<>> THEN DictSet(acc, normalized, Head(rows).id)
                      ELSE acc)

mp_build_map(rows) == BuildMap(rows, mp_normalize_ingredient_name, <<>>)

mp_partial_test(ing_name, normalized_tag) ==
    Contains(normalized_tag, ing_name) \/ Contains(ing_name, normalized_tag)

\* The body of "for tag in tags": at most one record
mp_match_tag(code, tag, ingredient_map) ==
    LET normalized_tag == mp_normalize_ingredient_name(tag)
        exact == DictGet(ingredient_map, normalized_tag)
        ingredient_id == IF exact # 0 THEN exact
                         ELSE FirstHit(ingredient_map, mp_partial_test, normalized_tag)
    IN  IF normalized_tag = <<>> \/ ingredient_id = 0 THEN <<>>
        ELSE << MatchRecord(code, ingredient_id, One,
                            IF DictHas(ingredient_map, normalized_tag)
                            THEN "exact" ELSE "partial") >>

mp_match_product(product, ingredient_map) ==
    LET raw == Split(product.tags, {","})
    IN  Concat([k \in 1..Len(raw) |->
                   mp_match_tag(product.code, Strip(raw[k]), ingredient_map)])

RECURSIVE mp_match_all(_, _)
mp_match_all(products, ingredient_map) ==
    IF products = <<>> THEN <<>>
    ELSE mp_match_product(Head(products), ingredient_map)
             \o mp_match_all(Tail(products), ingredient_map)

(***************************************************************************)
(* match_recipes_with_ingredients.py: the recipe matcher                   *)
(***************************************************************************)
RecipeRecord(recipe_id, ingredient_id, quantity, unit, raw_text) ==
    [src |-> recipe_id, ing |-> ingredient_id, quantity |-> quantity,
     unit |-> unit, raw_text |-> raw_text]

mr_build_map(rows) == BuildMap(rows, mr_normalize_ingredient_name, <<>>)

mr_json_test(ing_key, normalized_name) ==
    Contains(normalized_name, ing_key) \/ Contains(ing_key, normalized_name)

\* One element of the parsed ingredients_json list; obj.name is the first
\* non-empty of its 'name', 'ingredient', 'nom' (str(obj) when not a dict)
mr_match_json_item(recipe_id, obj, ingredient_map) ==
    IF obj.name = <<>> THEN <<>>
    ELSE LET normalized_name == mr_normalize_ingredient_name(obj.name)
             exact == DictGet(ingredient_map, normalized_name)
             ingredient_id == IF exact # 0 THEN exact
                              ELSE FirstHit(ingredient_map, mr_json_test, normalized_name)
         IN  IF ingredient_id = 0 THEN <<>>
             ELSE << RecipeRecord(recipe_id, ingredient_id, obj.quantity, obj.unit,
                                  IF obj.raw # <<>> THEN obj.raw ELSE obj.name) >>

mr_raw_test(ing_key, normalized_name) ==
    \/ Contains(normalized_name, ing_key)
    \/ (Contains(ing_key, normalized_name) /\ Len(normalized_name) > 3)

\* s.replace(c, '', 1)
RemoveFirst(s, c) ==
    IF c \in Range(s)
    THEN SubSeq(s, 1, Find(s, c) - 1) \o SubSeq(s, Find(s, c) + 1, Len(s))
    ELSE s

\* str.isdigit()
IsDigit(s) == s # <<>> /\ \A i \in 1..Len(s) : s[i] \in Digits

\* s.split(None, 2) of a stripped string: two words and the unsplit rest
SplitTwice(s) ==
    LET words == Words(s)
    IN  IF Len(words) <= 2 THEN words
        ELSE LET r1 == LStrip(SubSeq(s, Len(words[1]) + 1, Len(s)))
                 r2 == LStrip(SubSeq(r1, Len(words[2]) + 1, Len(r1)))
             IN  <<words[1], words[2], r2>>

\* The body of "for raw_ing in ingredients_list": at most one record
mr_match_raw_item(recipe_id, raw_ing, ingredient_map) ==
    LET parts == SplitTwice(raw_ing)
        numeric == parts # <<>> /\ IsDigit(RemoveFirst(RemoveFirst(parts[1], "."), ","))
        quantity == IF numeric THEN parts[1] ELSE <<>>
        unit == IF numeric /\ Len(parts) > 1 THEN parts[2] ELSE <<>>
        ing_name == IF numeric /\ Len(parts) > 1
                    THEN (IF Len(parts) > 2 THEN parts[3] ELSE <<>>)
                    ELSE raw_ing
        normalized_name == mr_normalize_ingredient_name(ing_name)
        exact == DictGet(ingredient_map, normalized_name)
        ingredient_id == IF exact # 0 THEN exact
                         ELSE FirstHit(ingredient_map, mr_raw_test, normalized_name)
    IN  IF raw_ing = <<>> \/ normalized_name = <<>> \/ ingredient_id = 0 THEN <<>>
        ELSE << RecipeRecord(recipe_id, ingredient_id, quantity, unit, raw_ing) >>

\* One recipe row: the JSON list first, the pipe-separated text only when the
\* JSON list gave no record. recipe.json is the parsed list; a NULL, empty,
\* unparsable or non-list ingredients_json is the empty list (no record)
mr_match_recipe(recipe, ingredient_map) ==
    LET from_json ==
            Concat([k \in 1..Len(recipe.json) |->
                       mr_match_json_item(recipe.id, recipe.json[k], ingredient_map)])
        ingredients_list ==
            IF recipe.raw = NoneVal \/ recipe.raw = <<>> THEN <<>>
            ELSE LET parts == Split(recipe.raw, {"|"})
                 IN  [k \in 1..Len(parts) |-> Strip(parts[k])]
    IN  IF from_json # <<>> THEN from_json
        ELSE Concat([k \in 1..Len(ingredients_list) |->
                        mr_match_raw_item(recipe.id, ingredients_list[k], ingredient_map)])

RECURSIVE mr_match_all(_, _)
mr_match_all(recipes, ingredient_map) ==
    IF recipes = <<>> THEN <<>>
    ELSE mr_match_recipe(Head(recipes), ingredient_map)
             \o mr_match_all(Tail(recipes), ingredient_map)

\* The key of a row under the (source entity, ingredient) uniqueness
PairKey(r) == <<r.src, r.ing>>

HasPair(rows, key) == \E i \in 1..Len(rows) : PairKey(rows[i]) = key

\* As KeepFirst, but a later record of a stored pair takes the place of the
\* stored one
RECURSIVE KeepLast(_, _)
KeepLast(records, acc) ==
    IF records = <<>> THEN acc
    ELSE KeepLast(Tail(records),
                  IF HasPair(acc, PairKey(Head(records)))
                  THEN [k \in 1..Len(acc) |->
                           IF PairKey(acc[k]) = PairKey(Head(records))
                           THEN Head(records) ELSE acc[k]]
                  ELSE Append(acc, Head(records)))

\* unique_matches: the first record of each (recipe_id, ingredient_id), in
\* the order of first appearance
RECURSIVE KeepFirst(_, _)
KeepFirst(records, acc) ==
    IF records = <<>> THEN acc
    ELSE KeepFirst(Tail(records),
                   IF HasPair(acc, PairKey(Head(records))) THEN acc
                   ELSE Append(acc, Head(records)))

(***************************************************************************)
(* link_ingredients.py: linking product tags to Marmiton ingredients       *)
(***************************************************************************)
RECURSIVE Gcd(_, _)
Gcd(a, b) == IF b = 0 THEN a ELSE Gcd(b, a % b)

Fraction(n, d) == IF n = 0 THEN Zero ELSE <<n \div Gcd(n, d), d \div Gcd(n, d)>>

\* x > y for two scores
ScoreGreater(x, y) == x[1] * y[2] > y[1] * x[2]

similarity_ratio(a, b) ==
    IF a = <<>> \/ b = <<>> THEN Zero
    ELSE IF a = b THEN One
    ELSE IF Contains(b, a) \/ Contains(a, b) THEN PointEight
    ELSE LET words_a == Range(Words(a))
             words_b == Range(Words(b))
         IN  IF words_a = {} \/ words_b = {} THEN Zero
             ELSE Fraction(Cardinality(words_a \cap words_b),
                           Cardinality(words_a \cup words_b))

li_build_map(rows) == BuildMap(rows, li_normalize_ingredient_name, <<>>)

\* sorted(d.items(), key=lambda x: x[1]): the items by ascending id
RECURSIVE SortById(_)
SortById(d) ==
    IF d = <<>> THEN <<>>
    ELSE LET m == CHOOSE i \in 1..Len(d) : \A j \in 1..Len(d) : d[i][2] <= d[j][2]
         IN  <<d[m]>> \o SortById([k \in 1..(Len(d) - 1) |-> IF k < m THEN d[k] ELSE d[k + 1]])

\* s[:n]
Take(s, n) == SubSeq(s, 1, IF Len(s) < n THEN Len(s) ELSE n)

\* top_marmiton = sorted(...)[:30]
li_TOP == 30

\* if similarity > 0.75
li_THRESHOLD == <<3, 4>>

\* The first candidate, in ascending id, whose similarity passes the threshold
RECURSIVE li_first_fuzzy(_, _, _)
li_first_fuzzy(off_tag, off_normalized, candidates) ==
    IF candidates = <<>> THEN <<>>
    ELSE LET similarity == similarity_ratio(off_normalized, Head(candidates)[1])
         IN  IF ScoreGreater(similarity, li_THRESHOLD)
             THEN << MatchRecord(off_tag, Head(candidates)[2], similarity, "fuzzy") >>
             ELSE li_first_fuzzy(off_tag, off_normalized, Tail(candidates))

\* The body of "for off_tag in all_off_tags": at most one mapping
li_map_tag(off_tag, marmiton_map) ==
    LET off_normalized == li_normalize_ingredient_name(off_tag)
    IN  IF off_normalized = <<>> \/ Len(off_normalized) < 2 THEN <<>>
        ELSE IF DictHas(marmiton_map, off_normalized)
             THEN << MatchRecord(off_tag, DictGet(marmiton_map, off_normalized), One, "exact") >>
             ELSE li_first_fuzzy(off_tag, off_normalized,
                                 Take(SortById(marmiton_map), li_TOP))

\* Limit to 200 tags: the loop stops once more than 200 are collected
li_TAG_LIMIT == 200

\* The tags of one ingredients_tags value added to all_off_tags
RECURSIVE li_add_tags(_, _)
li_add_tags(tags, all_off_tags) ==
    IF tags = <<>> \/ Len(all_off_tags) > li_TAG_LIMIT THEN all_off_tags
    ELSE LET tag == Strip(Head(tags))
         IN  li_add_tags(Tail(tags),
                         IF Len(tag) > 2 /\ tag \notin Range(all_off_tags)
                         THEN Append(all_off_tags, tag) ELSE all_off_tags)

RECURSIVE li_collect_tags(_, _)
li_collect_tags(values, all_off_tags) ==
    IF values = <<>> \/ Len(all_off_tags) > li_TAG_LIMIT THEN all_off_tags
    ELSE li_collect_tags(Tail(values),
                         li_add_tags(Split(Head(values), {",", ";", "|"}), all_off_tags))

RECURSIVE li_map_all(_, _)
li_map_all(all_off_tags, marmiton_map) ==
    IF all_off_tags = <<>> THEN <<>>
    ELSE li_map_tag(Head(all_off_tags), marmiton_map)
             \o li_map_all(Tail(all_off_tags), marmiton_map)

(***************************************************************************)
(* scrape_marmiton.py: parse_ingredient                                    *)
(***************************************************************************)
\* A pattern that does not match
NoMatch == <<"<no match>">>

\* s[n:]
Drop(s, n) == SubSeq(s, n + 1, Len(s))

\* The length of the longest prefix of s made of characters of a set
RECURSIVE RunLen(_, _)
RunLen(s, chars) ==
    IF s # <<>> /\ Head(s) \in chars THEN 1 + RunLen(Tail(s), chars) ELSE 0

\* [a-zA-Z....] under re.IGNORECASE: the ASCII letters, e acute, e grave,
\* a grave, c cedilla and their capitals
UnitClass ==
    {"a", "b", "c", "d", "e", "f", "g", "h", "i", "j", "k", "l", "m", "n", "o",
     "p", "q", "r", "s", "t", "u", "v", "w", "x", "y", "z",
     "A", "B", "C", "D", "E", "F", "G", "H", "I", "J", "K", "L", "M", "N", "O",
     "P", "Q", "R", "S", "T", "U", "V", "W", "X", "Y", "Z",
     "U+00E9", "U+00E8", "U+00E0", "U+00E7", "U+00C9", "U+00C8", "U+00C0", "U+00C7"}

\* The length of the match of (\d+(?:[.,]\d+)?) at the start of s, 0 if none
NumberLen(s) ==
    LET d1 == RunLen(s, Digits)
        after == Drop(s, d1)
    IN  IF d1 = 0 THEN 0
        ELSE IF Len(after) >= 2 /\ after[1] \in {".", ","} /\ RunLen(Tail(after), Digits) > 0
             THEN d1 + 1 + RunLen(Tail(after), Digits)
             ELSE d1

\* The length of the match of (\d+/\d+) at the start of s, 0 if none
FractionLen(s) ==
    LET d1 == RunLen(s, Digits)
        after == Drop(s, d1)
    IN  IF d1 > 0 /\ Len(after) >= 2 /\ after[1] = "/" /\ RunLen(Tail(after), Digits) > 0
        THEN d1 + 1 + RunLen(Tail(after), Digits)
        ELSE 0

\* The alternatives of the cooking-unit group: a word and the letter that may
\* follow it ("cuilleres?", "bocaux?", "noix")
CookingUnits ==
    << << <<"c", "u", "i", "l", "l", "U+00E8", "r", "e">>, <<"s">> >>,
       << <<"v", "e", "r", "r", "e">>, <<"s">> >>,
       << <<"s", "a", "c", "h", "e", "t">>, <<"s">> >>,
       << <<"b", "o", "U+00EE", "t", "e">>, <<"s">> >>,
       << <<"b", "o", "c", "a", "u">>, <<"x">> >>,
       << <<"t", "r", "a", "n", "c", "h", "e">>, <<"s">> >>,
       << <<"g", "o", "u", "s", "s", "e">>, <<"s">> >>,
       << <<"b", "r", "a", "n", "c", "h", "e">>, <<"s">> >>,
       << <<"f", "e", "u", "i", "l", "l", "e">>, <<"s">> >>,
       << <<"p", "i", "n", "c", "U+00E9", "e">>, <<"s">> >>,
       << <<"p", "o", "i", "g", "n", "U+00E9", "e">>, <<"s">> >>,
       << <<"c", "u", "b", "e">>, <<"s">> >>,
       << <<"n", "o", "i", "x">>, <<>> >> >>

\* soupe|cafe|the, after "cuilleres a"
Qualifiers == { <<"s", "o", "u", "p", "e">>,
      <<"c", "a", "f", "U+00E9">>,
      <<"t", "h", "U+00E9">> }

\* The length of the match of (?:\s+a\s+(?:soupe|cafe|the))? at the start of s
QualifierLen(s) ==
    LET a == LStrip(s)
        b == LStrip(Drop(a, 1))
    IN  IF /\ a # s /\ a # <<>> /\ Lower(Take(a, 1)) = <<"U+00E0">>
           /\ b # Drop(a, 1)
           /\ \E q \in Qualifiers : StartsWith(Lower(b), q)
        THEN (Len(s) - Len(b))
                 + Len(CHOOSE q \in Qualifiers : StartsWith(Lower(b), q))
        ELSE 0

\* The length of the match of alternative k of the cooking-unit group at the
\* start of s, 0 if it does not match
CookingUnitAt(s, k) ==
    LET word == CookingUnits[k][1]
        opt == CookingUnits[k][2]
        n == IF opt # <<>> /\ StartsWith(Lower(Drop(s, Len(word))), opt)
             THEN Len(word) + 1 ELSE Len(word)
    IN  IF ~StartsWith(Lower(s), word) THEN 0
        ELSE IF k = 1 THEN n + QualifierLen(Drop(s, n))
        ELSE n

\* The length of the match of the cooking-unit group at the start of s
CookingUnitLen(s) ==
    IF \E k \in 1..Len(CookingUnits) : CookingUnitAt(s, k) > 0
    THEN CookingUnitAt(s, CHOOSE k \in 1..Len(CookingUnits) :
                              /\ CookingUnitAt(s, k) > 0
                              /\ \A j \in 1..(k - 1) : CookingUnitAt(s, j) = 0)
    ELSE 0

\* \s+(?:de|d')\s+(.+)$ matched against s: the last group, or NoMatch
ArticleRest(s) ==
    LET a == LStrip(s)
        b == Drop(a, 2)
        c == LStrip(b)
    IN  IF /\ a # s /\ Len(a) >= 2
           /\ Lower(Take(a, 2)) \in {<<"d", "e">>, <<"d", "'">>}
           /\ c # b /\ c # <<>>
        THEN c ELSE NoMatch

\* Pattern 1: quantity, a word as unit, de or d', name
pattern1(text) ==
    LET n == NumberLen(text)
        r == LStrip(Drop(text, n))
        u == RunLen(r, UnitClass)
        rest == ArticleRest(Drop(r, u))
    IN  IF n > 0 /\ u > 0 /\ rest # NoMatch
        THEN << Take(text, n), Take(r, u), rest >> ELSE NoMatch

\* Pattern 2: quantity, cooking unit, de or d', name
pattern2(text) ==
    LET n == NumberLen(text)
        r == LStrip(Drop(text, n))
        u == CookingUnitLen(r)
        rest == ArticleRest(Drop(r, u))
    IN  IF n > 0 /\ r # Drop(text, n) /\ u > 0 /\ rest # NoMatch
        THEN << Take(text, n), Take(r, u), rest >> ELSE NoMatch

\* Pattern 3: fraction, cooking unit, de or d', name
pattern3(text) ==
    LET n == FractionLen(text)
        r == LStrip(Drop(text, n))
        u == CookingUnitLen(r)
        rest == ArticleRest(Drop(r, u))
    IN  IF n > 0 /\ r # Drop(text, n) /\ u > 0 /\ rest # NoMatch
        THEN << Take(text, n), Take(r, u), rest >> ELSE NoMatch

\* Pattern 4: quantity, a word as unit, d' joined to the name
pattern4(text) ==
    LET n == NumberLen(text)
        r == LStrip(Drop(text, n))
        u == RunLen(r, UnitClass)
        a == LStrip(Drop(r, u))
    IN  IF /\ n > 0 /\ u > 0 /\ a # Drop(r, u)
           /\ Len(a) >= 3 /\ Lower(Take(a, 2)) = <<"d", "'">>
        THEN << Take(text, n), Take(r, u), Drop(a, 2) >> ELSE NoMatch

\* Pattern 5: quantity and name
pattern5(text) ==
    LET n == NumberLen(text)
        r == LStrip(Drop(text, n))
    IN  IF n > 0 /\ r # Drop(text, n) /\ r # <<>>
        THEN << Take(text, n), <<>>, r >> ELSE NoMatch

\* Pattern 6: fraction and name
pattern6(text) ==
    LET n == FractionLen(text)
        r == LStrip(Drop(text, n))
    IN  IF n > 0 /\ r # Drop(text, n) /\ r # <<>>
        THEN << Take(text, n), <<>>, r >> ELSE NoMatch

\* The dict returned for the groups of a match; patterns 3 and 6 keep the
\* fraction as it is, the others write the decimal comma as a point
ParsedIngredient(groups, text, decimal) ==
    [quantity |-> IF decimal THEN [i \in 1..Len(groups[1]) |->
                                      IF groups[1][i] = "," THEN "." ELSE groups[1][i]]
                  ELSE groups[1],
     unit |-> Strip(groups[2]),
     name |-> Strip(groups[3]),
     raw |-> text]

\* As parse_ingredient with the quantity-and-name pattern tried first
parse_ingredient_number_first(ingredient_text) ==
    LET text == Strip(ingredient_text)
    IN  IF pattern5(text) # NoMatch THEN ParsedIngredient(pattern5(text), text, TRUE)
        ELSE IF pattern1(text) # NoMatch THEN ParsedIngredient(pattern1(text), text, TRUE)
        ELSE IF pattern2(text) # NoMatch THEN ParsedIngredient(pattern2(text), text, TRUE)
        ELSE IF pattern3(text) # NoMatch THEN ParsedIngredient(pattern3(text), text, FALSE)
        ELSE IF pattern4(text) # NoMatch THEN ParsedIngredient(pattern4(text), text, TRUE)
        ELSE IF pattern6(text) # NoMatch THEN ParsedIngredient(pattern6(text), text, FALSE)
        ELSE [quantity |-> <<>>, unit |-> <<>>, name |-> text, raw |-> text]

\* parse_ingredient, called with a str: the first pattern that matches decides
parse_ingredient(ingredient_text) ==
    LET text == Strip(ingredient_text)
    IN  IF pattern1(text) # NoMatch THEN ParsedIngredient(pattern1(text), text, TRUE)
        ELSE IF pattern2(text) # NoMatch THEN ParsedIngredient(pattern2(text), text, TRUE)
        ELSE IF pattern3(text) # NoMatch THEN ParsedIngredient(pattern3(text), text, FALSE)
        ELSE IF pattern4(text) # NoMatch THEN ParsedIngredient(pattern4(text), text, TRUE)
        ELSE IF pattern5(text) # NoMatch THEN ParsedIngredient(pattern5(text), text, TRUE)
        ELSE IF pattern6(text) # NoMatch THEN ParsedIngredient(pattern6(text), text, FALSE)
        ELSE [quantity |-> <<>>, unit |-> <<>>, name |-> text, raw |-> text]

(***************************************************************************)
(* SQLite tables and statements                                            *)
(***************************************************************************)
\* INSERT OR IGNORE ... executemany: a row whose (source, ingredient) pair is
\* already in the table is skipped, the others are appended in order
\* A plain INSERT into a table without the constraint: every row is stored
InsertAll(table, records) == table \o records

\* The uniqueness constraint of product_ingredient_matches in schema.sql: a
\* row with the (product_code, ingredient_id) of a stored row conflicts
pim_conflict(table, record) == HasPair(table, PairKey(record))

RECURSIVE InsertOrIgnore(_, _)
InsertOrIgnore(table, records) ==
    IF records = <<>> THEN table
    ELSE InsertOrIgnore(IF pim_conflict(table, Head(records)) THEN table
                        ELSE Append(table, Head(records)),
                        Tail(records))

\* INSERT OR REPLACE ... executemany: a row with the same pair is deleted
\* before the new row is appended
RECURSIVE InsertOrReplace(_, _)
InsertOrReplace(table, records) ==
    IF records = <<>> THEN table
    ELSE LET key == PairKey(Head(records))
             kept == SelectSeq2(table, LAMBDA r, k : PairKey(r) # k, key)
         IN  InsertOrReplace(Append(kept, Head(records)), Tail(records))

\* ORDER BY name
RECURSIVE SortByName(_)
SortByName(rows) ==
    IF rows = <<>> THEN <<>>
    ELSE LET m == CHOOSE i \in 1..Len(rows) :
                      \A j \in 1..Len(rows) : ~StrLess(rows[j].name, rows[i].name)
         IN  <<rows[m]>>
                 \o SortByName([k \in 1..(Len(rows) - 1) |->
                                   IF k < m THEN rows[k] ELSE rows[k + 1]])

\* WHERE ingredients_tags IS NOT NULL AND ingredients_tags != ''
HasTags(product) == product.tags # NoneVal /\ product.tags # <<>>

\* WHERE ingredients_raw or ingredients_json is neither NULL nor ''
HasIngredients(recipe) ==
    (recipe.raw # NoneVal /\ recipe.raw # <<>>) \/ recipe.json # <<>>

\* SELECT DISTINCT ingredients_tags: each value once, in first-seen order
RECURSIVE Distinct(_, _)
Distinct(values, acc) ==
    IF values = <<>> THEN acc
    ELSE Distinct(Tail(values),
                  IF Head(values) \in Range(acc) THEN acc ELSE Append(acc, Head(values)))

\* LIMIT 5000 of the one-batch product matcher
mp_LIMIT == 5000

\* LIMIT 500 of the tag sample
li_SELECT_LIMIT == 500

\* "if len(matches) >= 1000": the flush threshold of the batched matcher,
\* scaled from 1000 to 2 so that a run of a few products crosses it
mi_BATCH == 2

(***************************************************************************)
(* The databases and runs the model starts from                            *)
(***************************************************************************)
Workers == {1, 2}

\* At most this many rows in the ingredients table
MaxVocab == 3

\* At most this many pieces in an input of the normalisers
MaxPieces == 3

IngredientRows ==
    { [id |-> 1, name |-> <<"f", "r", ":", "a", "b">>, source |-> "marmiton"],
      [id |-> 2, name |-> <<"b", "c">>, source |-> "marmiton"],
      [id |-> 3, name |-> <<"a", "b">>, source |-> "marmiton"],
      [id |-> 4, name |-> <<"a", "b", "c", "d">>, source |-> "marmiton"],
      [id |-> 5, name |-> <<"a", "b", "c">>, source |-> "marmiton_recipe"] }

ProductRows ==
    { [code |-> 1, tags |-> <<"e", "n", ":", "a", "b", ",", "f", "r", ":", "a", "b">>],
      [code |-> 2, tags |-> <<"a", "b", "c">>],
      [code |-> 3, tags |-> <<"e", "n", ":", ",", " ", "a", "b", "c", "d">>],
      [code |-> 4, tags |-> NoneVal] }

RecipeRows ==
    { [id |-> 1, json |-> << [name |-> <<"d", "'">>, quantity |-> <<>>, unit |-> <<>>, raw |-> <<>>] >>,
       raw |-> <<"a", "b", "|", "l", "e", " ", "a", "b">>],
      [id |-> 2, json |-> << [name |-> <<"a", "b", "c">>, quantity |-> <<"1">>, unit |-> <<"g">>, raw |-> <<"1", " ", "g", " ", "a", "b", "c">>],
                            [name |-> <<"l", "e", " ", "a", "b", "c">>, quantity |-> <<>>, unit |-> <<>>, raw |-> <<>>] >>,
       raw |-> NoneVal],
      [id |-> 3, json |-> <<>>,
       raw |-> <<" ", "|", "1", " ", "g", "|", "2", " ", "g", " ", "a", "b", "c", "d">>] }

\* A vocabulary and a product for the tag linker in which a tag has the words
\* of one entry in another order and contains another entry
LinkIngredientTables ==
    { << [id |-> 3, name |-> <<"a", "b">>, source |-> "marmiton"],
         [id |-> 6, name |-> <<"c", " ", "a", "b">>, source |-> "marmiton"] >>,
      << [id |-> 7, name |-> <<"a", " ", "b", " ", "c", " ", "d">>, source |-> "marmiton"] >> }

\* The second product has one tag, made of three of the four words of entry 7
LinkProductTables ==
    { << [code |-> 5, tags |-> <<"a", "b", " ", "c", ";", "a", "b">>] >>,
      << [code |-> 7, tags |-> <<"c", " ", "b", " ", "a">>] >> }

\* A product whose second tag contains the entry its first tag equals
RepeatProductTables ==
    { << [code |-> 6, tags |-> <<"a", "b", ",", "a", "b", "c">>] >> }

\* The rows of a set of table rows in rowid order (ascending key)
RECURSIVE InKeyOrder(_, _)
InKeyOrder(rows, key) ==
    IF rows = {} THEN <<>>
    ELSE LET r == CHOOSE x \in rows : \A y \in rows : key[x] <= key[y]
         IN  <<r>> \o InKeyOrder(rows \ {r}, key)

IngredientTables ==
    {InKeyOrder(rows, [r \in rows |-> r.id]) :
        rows \in {x \in SUBSET IngredientRows : Cardinality(x) <= MaxVocab}}

ProductTables == {InKeyOrder(rows, [r \in rows |-> r.code]) : rows \in SUBSET ProductRows}

RecipeTables == {InKeyOrder(rows, [r \in rows |-> r.id]) : rows \in SUBSET RecipeRows}

\* What an earlier run may have left in product_ingredient_matches
OldProductMatches ==
    { <<>>,
      << MatchRecord(4, 2, One, "exact"), MatchRecord(1, 4, PointEight, "partial") >> }

\* What an earlier run may have left in recipe_ingredients
OldRecipeIngredients ==
    { <<>>, << RecipeRecord(1, 2, <<>>, <<>>, <<"b", "c">>) >> }

\* The inputs of the normalisers: None and every string of up to MaxPieces
\* pieces
Pieces ==
    { <<"l", "a", " ">>, <<"d", "e", " ">>, <<"x">>, <<"a", ":">>, <<"b", ":">>, <<"c">>, <<" ">>, <<"-">>, <<"S">>, <<"(">>, <<")">> }

NormInputs ==
    {NoneVal} \cup
    UNION {{Concat(ps) : ps \in [1..n -> Pieces]} : n \in 0..MaxPieces}

(***************************************************************************)
(* State                                                                   *)
(***************************************************************************)
VARIABLES
    mode,            \* the scenario: "norm", "single", "two", "seq", "sim", "index", "parse" or "rate"
    ingredients,     \* table ingredients, rows in rowid order
    products,        \* table products, rows in rowid order
    recipes,         \* table recipes, rows in rowid order
    pim,             \* committed rows of product_ingredient_matches
    ri,              \* committed rows of recipe_ingredients
    im,              \* committed rows of ingredient_mappings
    old,             \* pim, ri and products as they were when the latest run started
    lock,            \* the connection holding SQLite's write lock, 0 if none
    prog,            \* per run: the script it executes
    pc,              \* per run: the statement it is at
    ings,            \* per run: the ingredient rows it read from the table or the CSV file
    ingredient_map,  \* per run: the normalised-name dict
    sel,             \* per run: the products, recipes or tags it read
    idx,             \* per run: position of the product loop in sel
    matches,         \* per run: the buffer of records not yet written
    txn,             \* per run: the table as its open transaction sees it
    intxn,           \* per run: whether a transaction is open
    out,             \* per run: every record generated so far, in order
    batches,         \* per run: the batches handed to executemany so far
    cleared,         \* per run: whether its DELETE has been committed
    norm,            \* the string a normaliser is applied to, and its results
    call,            \* the arguments of a call of a pure function, and its result
    now,             \* time.time(), in ticks
    last_request,    \* RateLimiter.last_request
    co               \* per coroutine: where it is in fetch_page_async

vars == << mode, ingredients, products, recipes, pim, ri, im, old, lock, prog, pc,
           ings, ingredient_map, sel, idx, matches, txn, intxn, out, batches,
           cleared, norm, call, now, last_request, co >>

ratevars == << now, last_request, co >>

dbvars == << ingredients, products, recipes, pim, ri, im, old, lock >>

runvars == << prog, pc, ings, ingredient_map, sel, idx, matches, txn, intxn,
              out, batches, cleared >>

Last(s) == s[Len(s)]

\* No pure function is being called
NoCall == [fn |-> "none", args |-> <<>>, result |-> <<>>]

\* The coroutines that share one RateLimiter
Coroutines == {1, 2, 3}

\* No coroutine fetches a page
NoRequests ==
    /\ now = 0
    /\ last_request = 0
    /\ co = [c \in Coroutines |-> [at |-> "idle", until |-> 0, sent |-> 0]]

(***************************************************************************)
(* The normalisers, applied to a string and again to their own result      *)
(***************************************************************************)
NoRuns ==
    /\ prog = [w \in Workers |-> "none"]
    /\ pc = [w \in Workers |-> "idle"]
    /\ ings = [w \in Workers |-> <<>>]
    /\ ingredient_map = [w \in Workers |-> <<>>]
    /\ sel = [w \in Workers |-> <<>>]
    /\ idx = [w \in Workers |-> 1]
    /\ matches = [w \in Workers |-> <<>>]
    /\ txn = [w \in Workers |-> <<>>]
    /\ intxn = [w \in Workers |-> FALSE]
    /\ out = [w \in Workers |-> <<>>]
    /\ batches = [w \in Workers |-> <<>>]
    /\ cleared = [w \in Workers |-> FALSE]

InitNorm ==
    /\ mode = "norm"
    /\ ingredients = <<>> /\ products = <<>> /\ recipes = <<>>
    /\ pim = <<>> /\ ri = <<>> /\ im = <<>> /\ old = [pim |-> <<>>, ri |-> <<>>, products |-> <<>>]
    /\ lock = 0
    /\ NoRequests
    /\ NoRuns
    /\ \E input \in NormInputs : norm = [variant |-> "none", history |-> <<input>>]
    /\ call = NoCall

\* A normaliser may be called once more on the latest result
CanNormalize(variant) ==
    /\ mode = "norm"
    /\ norm.variant \in {"none", variant}
    /\ Len(norm.history) < 3
    /\ Last(norm.history) # Raised

mi_Normalize ==
    /\ CanNormalize("mi")
    /\ norm' = [variant |-> "mi",
                history |-> Append(norm.history,
                                   mi_normalize_ingredient_name(Last(norm.history)))]
    /\ UNCHANGED << mode, ratevars, dbvars, runvars, call >>

mp_Normalize ==
    /\ CanNormalize("mp")
    /\ norm' = [variant |-> "mp",
                history |-> Append(norm.history,
                                   mp_normalize_ingredient_name(Last(norm.history)))]
    /\ UNCHANGED << mode, ratevars, dbvars, runvars, call >>

mr_Normalize ==
    /\ CanNormalize("mr")
    /\ norm' = [variant |-> "mr",
                history |-> Append(norm.history,
                                   mr_normalize_ingredient_name(Last(norm.history)))]
    /\ UNCHANGED << mode, ratevars, dbvars, runvars, call >>

li_Normalize ==
    /\ CanNormalize("li")
    /\ norm' = [variant |-> "li",
                history |-> Append(norm.history,
                                   li_normalize_ingredient_name(Last(norm.history)))]
    /\ UNCHANGED << mode, ratevars, dbvars, runvars, call >>

lr_Normalize ==
    /\ CanNormalize("lr")
    /\ norm' = [variant |-> "lr",
                history |-> Append(norm.history,
                                   lr_normalize_ingredient_name(Last(norm.history)))]
    /\ UNCHANGED << mode, ratevars, dbvars, runvars, call >>

NextNorm ==
    mi_Normalize \/ mp_Normalize \/ mr_Normalize \/ li_Normalize \/ lr_Normalize

SpecNorm == InitNorm /\ [][NextNorm]_vars

\* C1 (as stated): normalising an already normalised string changes nothing,
\* for each of the four normalisers
C1_Idempotent ==
    (Len(norm.history) = 3 /\ norm.history[3] # Raised)
        => norm.history[3] = norm.history[2]

(***************************************************************************)
(* A run of match_ingredients.py                                           *)
(***************************************************************************)
\* SQLite lets one connection write at a time; a second writer waits
CanWrite(w) == lock \in {0, w}

\* SELECT id, name FROM ingredients ORDER BY name, then the simple filter
mi_Load(w) ==
    /\ pc[w] = "mi_load"
    /\ ings' = [ings EXCEPT ![w] =
                   SelectSeq(SortByName(ingredients),
                             LAMBDA ing : is_simple_ingredient(ing.name))]
    /\ pc' = [pc EXCEPT ![w] = "mi_clear"]
    /\ UNCHANGED << mode, ratevars, dbvars, norm, call, prog, ingredient_map, sel, idx, matches,
                    txn, intxn, out, batches, cleared >>

\* DELETE FROM product_ingredient_matches
mi_Clear(w) ==
    /\ pc[w] = "mi_clear"
    /\ CanWrite(w)
    /\ lock' = w
    /\ txn' = [txn EXCEPT ![w] = <<>>]
    /\ intxn' = [intxn EXCEPT ![w] = TRUE]
    /\ pc' = [pc EXCEPT ![w] = "mi_clear_commit"]
    /\ UNCHANGED << mode, ratevars, ingredients, products, recipes, pim, ri, im, old, norm, call, prog,
                    ings, ingredient_map, sel, idx, matches, out, batches, cleared >>

\* conn.commit() after the DELETE
mi_ClearCommit(w) ==
    /\ pc[w] = "mi_clear_commit"
    /\ pim' = txn[w]
    /\ lock' = 0
    /\ txn' = [txn EXCEPT ![w] = <<>>]
    /\ intxn' = [intxn EXCEPT ![w] = FALSE]
    /\ cleared' = [cleared EXCEPT ![w] = TRUE]
    /\ pc' = [pc EXCEPT ![w] = "mi_select"]
    /\ UNCHANGED << mode, ratevars, ingredients, products, recipes, ri, im, old, norm, call, prog,
                    ings, ingredient_map, sel, idx, matches, out, batches >>

\* SELECT ... FROM products WHERE ingredients_tags IS NOT NULL AND != ''
mi_Select(w) ==
    /\ pc[w] = "mi_select"
    /\ sel' = [sel EXCEPT ![w] = SelectSeq(products, HasTags)]
    /\ idx' = [idx EXCEPT ![w] = 1]
    /\ pc' = [pc EXCEPT ![w] = "mi_loop"]
    /\ UNCHANGED << mode, ratevars, dbvars, norm, call, prog, ings, ingredient_map, matches,
                    txn, intxn, out, batches, cleared >>

\* One iteration of "for product in products" up to the batch test: a
\* product without usable tags is skipped by "continue", which also skips
\* the batch test
mi_Product(w) ==
    /\ pc[w] = "mi_loop"
    /\ idx[w] <= Len(sel[w])
    /\ LET product == sel[w][idx[w]]
           found == mi_match_product(product, ings[w])
           buffer == matches[w] \o found
       IN  /\ matches' = [matches EXCEPT ![w] = buffer]
           /\ out' = [out EXCEPT ![w] = @ \o found]
           /\ IF mi_product_tags(product.tags) # <<>> /\ Len(buffer) >= mi_BATCH
              THEN /\ pc' = [pc EXCEPT ![w] = "mi_flush"]
                   /\ idx' = idx
              ELSE /\ pc' = pc
                   /\ idx' = [idx EXCEPT ![w] = @ + 1]
    /\ UNCHANGED << mode, ratevars, dbvars, norm, call, prog, ings, ingredient_map, sel,
                    txn, intxn, batches, cleared >>

\* executemany(INSERT OR IGNORE ...) of the full buffer
mi_Flush(w) ==
    /\ pc[w] = "mi_flush"
    /\ CanWrite(w)
    /\ lock' = w
    /\ txn' = [txn EXCEPT ![w] = InsertOrIgnore(pim, matches[w])]
    /\ intxn' = [intxn EXCEPT ![w] = TRUE]
    /\ batches' = [batches EXCEPT ![w] = Append(@, matches[w])]
    /\ pc' = [pc EXCEPT ![w] = "mi_flush_commit"]
    /\ UNCHANGED << mode, ratevars, ingredients, products, recipes, pim, ri, im, old, norm, call, prog,
                    ings, ingredient_map, sel, idx, matches, out, cleared >>

\* As mi_FlushCommit without "matches = []": the written records stay in
\* the buffer
mi_FlushCommit_keeps(w) ==
    /\ pc[w] = "mi_flush_commit"
    /\ pim' = txn[w]
    /\ lock' = 0
    /\ txn' = [txn EXCEPT ![w] = <<>>]
    /\ intxn' = [intxn EXCEPT ![w] = FALSE]
    /\ idx' = [idx EXCEPT ![w] = @ + 1]
    /\ pc' = [pc EXCEPT ![w] = "mi_loop"]
    /\ UNCHANGED << mode, ratevars, ingredients, products, recipes, ri, im, old, norm, call, prog,
                    ings, ingredient_map, sel, matches, out, batches, cleared >>

\* conn.commit(); matches = [] and on to the next product
mi_FlushCommit(w) ==
    /\ pc[w] = "mi_flush_commit"
    /\ pim' = txn[w]
    /\ lock' = 0
    /\ txn' = [txn EXCEPT ![w] = <<>>]
    /\ intxn' = [intxn EXCEPT ![w] = FALSE]
    /\ matches' = [matches EXCEPT ![w] = <<>>]
    /\ idx' = [idx EXCEPT ![w] = @ + 1]
    /\ pc' = [pc EXCEPT ![w] = "mi_loop"]
    /\ UNCHANGED << mode, ratevars, ingredients, products, recipes, ri, im, old, norm, call, prog,
                    ings, ingredient_map, sel, out, batches, cleared >>

\* After the loop: "if matches:" executemany(INSERT OR IGNORE ...)
mi_Final(w) ==
    /\ pc[w] = "mi_loop"
    /\ idx[w] > Len(sel[w])
    /\ IF matches[w] # <<>>
       THEN /\ CanWrite(w)
            /\ lock' = w
            /\ txn' = [txn EXCEPT ![w] = InsertOrIgnore(pim, matches[w])]
            /\ intxn' = [intxn EXCEPT ![w] = TRUE]
            /\ batches' = [batches EXCEPT ![w] = Append(@, matches[w])]
            /\ pc' = [pc EXCEPT ![w] = "mi_final_commit"]
       ELSE /\ pc' = [pc EXCEPT ![w] = "done"]
            /\ UNCHANGED << lock, txn, intxn, batches >>
    /\ UNCHANGED << mode, ratevars, ingredients, products, recipes, pim, ri, im, old, norm, call, prog,
                    ings, ingredient_map, sel, idx, matches, out, cleared >>

\* conn.commit() of the remaining records
mi_FinalCommit(w) ==
    /\ pc[w] = "mi_final_commit"
    /\ pim' = txn[w]
    /\ lock' = 0
    /\ txn' = [txn EXCEPT ![w] = <<>>]
    /\ intxn' = [intxn EXCEPT ![w] = FALSE]
    /\ pc' = [pc EXCEPT ![w] = "done"]
    /\ UNCHANGED << mode, ratevars, ingredients, products, recipes, ri, im, old, norm, call, prog,
                    ings, ingredient_map, sel, idx, matches, out, batches, cleared >>

(***************************************************************************)
(* A run of match_products_with_ingredients.py                             *)
(***************************************************************************)
\* DELETE FROM product_ingredient_matches
mp_Clear(w) ==
    /\ pc[w] = "mp_clear"
    /\ CanWrite(w)
    /\ lock' = w
    /\ txn' = [txn EXCEPT ![w] = <<>>]
    /\ intxn' = [intxn EXCEPT ![w] = TRUE]
    /\ pc' = [pc EXCEPT ![w] = "mp_clear_commit"]
    /\ UNCHANGED << mode, ratevars, ingredients, products, recipes, pim, ri, im, old, norm, call, prog,
                    ings, ingredient_map, sel, idx, matches, out, batches, cleared >>

\* conn.commit() after the DELETE
mp_ClearCommit(w) ==
    /\ pc[w] = "mp_clear_commit"
    /\ pim' = txn[w]
    /\ lock' = 0
    /\ txn' = [txn EXCEPT ![w] = <<>>]
    /\ intxn' = [intxn EXCEPT ![w] = FALSE]
    /\ cleared' = [cleared EXCEPT ![w] = TRUE]
    /\ pc' = [pc EXCEPT ![w] = "mp_load"]
    /\ UNCHANGED << mode, ratevars, ingredients, products, recipes, ri, im, old, norm, call, prog,
                    ings, ingredient_map, sel, idx, matches, out, batches >>

\* SELECT id, name FROM ingredients, in whatever order SQLite returns the
\* rows, and the dict built from them
mp_Load(w) ==
    /\ pc[w] = "mp_load"
    /\ \E order \in Perms(Len(ingredients)) :
           ingredient_map' = [ingredient_map EXCEPT ![w] =
               mp_build_map([k \in 1..Len(ingredients) |-> ingredients[order[k]]])]
    /\ pc' = [pc EXCEPT ![w] = "mp_select"]
    /\ UNCHANGED << mode, ratevars, dbvars, norm, call, prog, ings, sel, idx, matches,
                    txn, intxn, out, batches, cleared >>

\* SELECT code, ingredients_tags FROM products WHERE ... LIMIT 5000
mp_Select(w) ==
    /\ pc[w] = "mp_select"
    /\ sel' = [sel EXCEPT ![w] = Take(SelectSeq(products, HasTags), mp_LIMIT)]
    /\ pc' = [pc EXCEPT ![w] = "mp_match"]
    /\ UNCHANGED << mode, ratevars, dbvars, norm, call, prog, ings, ingredient_map, idx, matches,
                    txn, intxn, out, batches, cleared >>

\* The whole loop "for product_code, ingredients_tags in products"
mp_Match(w) ==
    /\ pc[w] = "mp_match"
    /\ LET found == mp_match_all(sel[w], ingredient_map[w])
       IN  /\ matches' = [matches EXCEPT ![w] = found]
           /\ out' = [out EXCEPT ![w] = found]
    /\ pc' = [pc EXCEPT ![w] = "mp_insert"]
    /\ UNCHANGED << mode, ratevars, dbvars, norm, call, prog, ings, ingredient_map, sel, idx,
                    txn, intxn, batches, cleared >>

\* executemany(INSERT OR IGNORE ...) of all the records; with no record
\* nothing is written and no lock is taken
mp_Insert(w) ==
    /\ pc[w] = "mp_insert"
    /\ matches[w] # <<>> => CanWrite(w)
    /\ lock' = IF matches[w] # <<>> THEN w ELSE lock
    /\ txn' = [txn EXCEPT ![w] = InsertOrIgnore(pim, matches[w])]
    /\ intxn' = [intxn EXCEPT ![w] = TRUE]
    /\ batches' = [batches EXCEPT ![w] = Append(@, matches[w])]
    /\ pc' = [pc EXCEPT ![w] = "mp_commit"]
    /\ UNCHANGED << mode, ratevars, ingredients, products, recipes, pim, ri, im, old, norm, call, prog,
                    ings, ingredient_map, sel, idx, matches, out, cleared >>

\* conn.commit() of the batch
mp_Commit(w) ==
    /\ pc[w] = "mp_commit"
    /\ pim' = txn[w]
    /\ lock' = IF lock = w THEN 0 ELSE lock
    /\ txn' = [txn EXCEPT ![w] = <<>>]
    /\ intxn' = [intxn EXCEPT ![w] = FALSE]
    /\ pc' = [pc EXCEPT ![w] = "done"]
    /\ UNCHANGED << mode, ratevars, ingredients, products, recipes, ri, im, old, norm, call, prog,
                    ings, ingredient_map, sel, idx, matches, out, batches, cleared >>

(***************************************************************************)
(* A run of match_recipes_with_ingredients.py                              *)
(***************************************************************************)
\* DELETE FROM recipe_ingredients
mr_Clear(w) ==
    /\ pc[w] = "mr_clear"
    /\ CanWrite(w)
    /\ lock' = w
    /\ txn' = [txn EXCEPT ![w] = <<>>]
    /\ intxn' = [intxn EXCEPT ![w] = TRUE]
    /\ pc' = [pc EXCEPT ![w] = "mr_clear_commit"]
    /\ UNCHANGED << mode, ratevars, ingredients, products, recipes, pim, ri, im, old, norm, call, prog,
                    ings, ingredient_map, sel, idx, matches, out, batches, cleared >>

\* conn.commit() after the DELETE
mr_ClearCommit(w) ==
    /\ pc[w] = "mr_clear_commit"
    /\ ri' = txn[w]
    /\ lock' = 0
    /\ txn' = [txn EXCEPT ![w] = <<>>]
    /\ intxn' = [intxn EXCEPT ![w] = FALSE]
    /\ cleared' = [cleared EXCEPT ![w] = TRUE]
    /\ pc' = [pc EXCEPT ![w] = "mr_load"]
    /\ UNCHANGED << mode, ratevars, ingredients, products, recipes, pim, im, old, norm, call, prog,
                    ings, ingredient_map, sel, idx, matches, out, batches >>

\* SELECT id, name FROM ingredients, in whatever order SQLite returns the
\* rows, and the dict built from them
mr_Load(w) ==
    /\ pc[w] = "mr_load"
    /\ \E order \in Perms(Len(ingredients)) :
           ingredient_map' = [ingredient_map EXCEPT ![w] =
               mr_build_map([k \in 1..Len(ingredients) |-> ingredients[order[k]]])]
    /\ pc' = [pc EXCEPT ![w] = "mr_select"]
    /\ UNCHANGED << mode, ratevars, dbvars, norm, call, prog, ings, sel, idx, matches,
                    txn, intxn, out, batches, cleared >>

\* SELECT ... FROM recipes WHERE ingredients_raw or ingredients_json is set
mr_Select(w) ==
    /\ pc[w] = "mr_select"
    /\ sel' = [sel EXCEPT ![w] = SelectSeq(recipes, HasIngredients)]
    /\ pc' = [pc EXCEPT ![w] = "mr_match"]
    /\ UNCHANGED << mode, ratevars, dbvars, norm, call, prog, ings, ingredient_map, idx, matches,
                    txn, intxn, out, batches, cleared >>

\* The whole loop "for recipe_id, ... in recipes" and the deduplication
mr_Match(w) ==
    /\ pc[w] = "mr_match"
    /\ LET found == mr_match_all(sel[w], ingredient_map[w])
       IN  /\ out' = [out EXCEPT ![w] = found]
           /\ matches' = [matches EXCEPT ![w] = KeepFirst(found, <<>>)]
    /\ pc' = [pc EXCEPT ![w] = "mr_insert"]
    /\ UNCHANGED << mode, ratevars, dbvars, norm, call, prog, ings, ingredient_map, sel, idx,
                    txn, intxn, batches, cleared >>

\* executemany(INSERT OR REPLACE ...) of the deduplicated records
mr_Insert(w) ==
    /\ pc[w] = "mr_insert"
    /\ matches[w] # <<>> => CanWrite(w)
    /\ lock' = IF matches[w] # <<>> THEN w ELSE lock
    /\ txn' = [txn EXCEPT ![w] = InsertOrReplace(ri, matches[w])]
    /\ intxn' = [intxn EXCEPT ![w] = TRUE]
    /\ batches' = [batches EXCEPT ![w] = Append(@, matches[w])]
    /\ pc' = [pc EXCEPT ![w] = "mr_commit"]
    /\ UNCHANGED << mode, ratevars, ingredients, products, recipes, pim, ri, im, old, norm, call, prog,
                    ings, ingredient_map, sel, idx, matches, out, cleared >>

\* conn.commit() of the batch
mr_Commit(w) ==
    /\ pc[w] = "mr_commit"
    /\ ri' = txn[w]
    /\ lock' = IF lock = w THEN 0 ELSE lock
    /\ txn' = [txn EXCEPT ![w] = <<>>]
    /\ intxn' = [intxn EXCEPT ![w] = FALSE]
    /\ pc' = [pc EXCEPT ![w] = "done"]
    /\ UNCHANGED << mode, ratevars, ingredients, products, recipes, pim, im, old, norm, call, prog,
                    ings, ingredient_map, sel, idx, matches, out, batches, cleared >>

(***************************************************************************)
(* A run of create_simple_mappings in link_ingredients.py                  *)
(***************************************************************************)
\* SELECT id, name FROM ingredients WHERE source = 'marmiton', in whatever
\* order SQLite returns the rows; return 0 if there is none, else the dict
li_Load(w) ==
    /\ pc[w] = "li_load"
    /\ LET marmiton_ingredients ==
               SelectSeq(ingredients, LAMBDA ing : ing.source = "marmiton")
       IN  IF marmiton_ingredients = <<>>
           THEN /\ pc' = [pc EXCEPT ![w] = "done"]
                /\ UNCHANGED ingredient_map
           ELSE /\ pc' = [pc EXCEPT ![w] = "li_tags"]
                /\ \E order \in Perms(Len(marmiton_ingredients)) :
                       ingredient_map' = [ingredient_map EXCEPT ![w] =
                           li_build_map([k \in 1..Len(marmiton_ingredients) |->
                                            marmiton_ingredients[order[k]]])]
    /\ UNCHANGED << mode, ratevars, dbvars, norm, call, prog, ings, sel, idx, matches,
                    txn, intxn, out, batches, cleared >>

\* SELECT DISTINCT ingredients_tags ... LIMIT 500 and the tag sample
li_Tags(w) ==
    /\ pc[w] = "li_tags"
    /\ LET tagged == SelectSeq(products, HasTags)
           values == Distinct([k \in 1..Len(tagged) |-> tagged[k].tags], <<>>)
       IN  sel' = [sel EXCEPT ![w] =
                      li_collect_tags(Take(values, li_SELECT_LIMIT), <<>>)]
    /\ pc' = [pc EXCEPT ![w] = "li_map"]
    /\ UNCHANGED << mode, ratevars, dbvars, norm, call, prog, ings, ingredient_map, idx, matches,
                    txn, intxn, out, batches, cleared >>

\* The whole loop "for off_tag in all_off_tags", each mapping written with
\* INSERT OR REPLACE inside one transaction
li_Map(w) ==
    /\ pc[w] = "li_map"
    /\ LET found == li_map_all(sel[w], ingredient_map[w])
       IN  /\ found # <<>> => CanWrite(w)
           /\ lock' = IF found # <<>> THEN w ELSE lock
           /\ out' = [out EXCEPT ![w] = found]
           /\ txn' = [txn EXCEPT ![w] = InsertOrReplace(im, found)]
           /\ intxn' = [intxn EXCEPT ![w] = found # <<>>]
    /\ pc' = [pc EXCEPT ![w] = "li_commit"]
    /\ UNCHANGED << mode, ratevars, ingredients, products, recipes, pim, ri, im, old, norm, call, prog,
                    ings, ingredient_map, sel, idx, matches, batches, cleared >>

\* conn.commit()
li_Commit(w) ==
    /\ pc[w] = "li_commit"
    /\ im' = txn[w]
    /\ lock' = IF lock = w THEN 0 ELSE lock
    /\ txn' = [txn EXCEPT ![w] = <<>>]
    /\ intxn' = [intxn EXCEPT ![w] = FALSE]
    /\ pc' = [pc EXCEPT ![w] = "done"]
    /\ UNCHANGED << mode, ratevars, ingredients, products, recipes, pim, ri, old, norm, call, prog,
                    ings, ingredient_map, sel, idx, matches, out, batches, cleared >>

(***************************************************************************)
(* The process of a run dies: SQLite rolls its open transaction back       *)
(***************************************************************************)
Running(w) == pc[w] \notin {"idle", "done", "aborted"}

\* As Abort on a connection in autocommit mode: the rows written before
\* the process died stay, the last row of the statement is missing
AbortMidWrite(w) ==
    /\ Running(w)
    /\ pc' = [pc EXCEPT ![w] = "aborted"]
    /\ lock' = IF lock = w THEN 0 ELSE lock
    /\ pim' = IF intxn[w] /\ prog[w] \in {"mi", "mp"} /\ txn[w] # <<>>
              THEN SubSeq(txn[w], 1, Len(txn[w]) - 1) ELSE pim
    /\ txn' = [txn EXCEPT ![w] = <<>>]
    /\ intxn' = [intxn EXCEPT ![w] = FALSE]
    /\ UNCHANGED << mode, ratevars, ingredients, products, recipes, ri, im, old, norm, call, prog,
                    ings, ingredient_map, sel, idx, matches, out, batches, cleared >>

Abort(w) ==
    /\ Running(w)
    /\ pc' = [pc EXCEPT ![w] = "aborted"]
    /\ lock' = IF lock = w THEN 0 ELSE lock
    /\ txn' = [txn EXCEPT ![w] = <<>>]
    /\ intxn' = [intxn EXCEPT ![w] = FALSE]
    /\ UNCHANGED << mode, ratevars, ingredients, products, recipes, pim, ri, im, old, norm, call, prog,
                    ings, ingredient_map, sel, idx, matches, out, batches, cleared >>

(***************************************************************************)
(* One run of one script on a database                                     *)
(***************************************************************************)
Programs == {"mi", "mp", "mr", "li"}

FirstPc(p) ==
    CASE p = "mi" -> "mi_load"
      [] p = "mp" -> "mp_clear"
      [] p = "mr" -> "mr_clear"
      [] p = "li" -> "li_load"

\* The database a run of script p starts on; the tables p never touches are
\* left empty
InitDb(p) ==
    /\ ingredients \in (IF p = "li" THEN IngredientTables \cup LinkIngredientTables
                        ELSE IngredientTables)
    /\ products \in (CASE p = "mr" -> {<<>>}
                        [] p = "li" -> ProductTables \cup LinkProductTables
                        [] OTHER -> ProductTables \cup RepeatProductTables)
    /\ recipes \in (IF p = "mr" THEN RecipeTables ELSE {<<>>})
    /\ pim \in (IF p \in {"mi", "mp"} THEN OldProductMatches ELSE {<<>>})
    /\ ri \in (IF p = "mr" THEN OldRecipeIngredients ELSE {<<>>})
    /\ im = <<>>
    /\ old = [pim |-> pim, ri |-> ri, products |-> products]
    /\ lock = 0
    /\ NoRequests

NoLocals ==
    /\ ings = [w \in Workers |-> <<>>]
    /\ ingredient_map = [w \in Workers |-> <<>>]
    /\ sel = [w \in Workers |-> <<>>]
    /\ idx = [w \in Workers |-> 1]
    /\ matches = [w \in Workers |-> <<>>]
    /\ txn = [w \in Workers |-> <<>>]
    /\ intxn = [w \in Workers |-> FALSE]
    /\ out = [w \in Workers |-> <<>>]
    /\ batches = [w \in Workers |-> <<>>]
    /\ cleared = [w \in Workers |-> FALSE]
    /\ norm = [variant |-> "none", history |-> <<>>]
    /\ call = NoCall

Init ==
    /\ mode = "single"
    /\ \E p \in Programs :
           /\ InitDb(p)
           /\ prog = [w \in Workers |-> IF w = 1 THEN p ELSE "none"]
           /\ pc = [w \in Workers |-> IF w = 1 THEN FirstPc(p) ELSE "idle"]
    /\ NoLocals

Step(w) ==
    \/ mi_Load(w) \/ mi_Clear(w) \/ mi_ClearCommit(w) \/ mi_Select(w)
    \/ mi_Product(w) \/ mi_Flush(w) \/ mi_FlushCommit(w) \/ mi_Final(w)
    \/ mi_FinalCommit(w)
    \/ mp_Clear(w) \/ mp_ClearCommit(w) \/ mp_Load(w) \/ mp_Select(w)
    \/ mp_Match(w) \/ mp_Insert(w) \/ mp_Commit(w)
    \/ mr_Clear(w) \/ mr_ClearCommit(w) \/ mr_Load(w) \/ mr_Select(w)
    \/ mr_Match(w) \/ mr_Insert(w) \/ mr_Commit(w)
    \/ li_Load(w) \/ li_Tags(w) \/ li_Map(w) \/ li_Commit(w)

Next == \E w \in Workers : Step(w) \/ Abort(w)

Spec == Init /\ [][Next]_vars

(***************************************************************************)
(* Two runs of the product matchers on one database, in any interleaving,  *)
(* and a run of load_to_sqlite.py between or during them                   *)
(***************************************************************************)
\* At most this many rows in the tables of the two-run scenario
MaxRows == 2

\* The products of the CSV files the loader may be given
CsvFiles ==
    { << [code |-> 2, tags |-> NoneVal],
         [code |-> 3, tags |-> <<"e", "n", ":", ",", " ", "a", "b", "c", "d">>] >>,
      << [code |-> 1, tags |-> <<"e", "n", ":", "a", "b", ",", "f", "r", ":", "a", "b">>] >> }

\* INSERT OR REPLACE INTO products, row by row: a row with the code of a
\* stored row replaces it
RECURSIVE ReplaceProducts(_, _)
ReplaceProducts(table, rows) ==
    IF rows = <<>> THEN table
    ELSE LET kept == SelectSeq2(table, LAMBDA r, c : r.code # c, Head(rows).code)
         IN  ReplaceProducts(Append(kept, Head(rows)), Tail(rows))

\* load_data: one transaction that inserts or replaces every product of the
\* CSV file; the scenario has the loader run once
load_data(csv) ==
    /\ mode = "two"
    /\ lock = 0
    /\ products = old.products
    /\ products' = ReplaceProducts(products, csv)
    /\ products' # products
    /\ UNCHANGED << mode, ratevars, ingredients, recipes, pim, ri, im, old, lock, norm, call, runvars >>

Init2 ==
    /\ mode = "two"
    /\ ingredients \in {table \in IngredientTables : Len(table) <= MaxRows}
    /\ products \in {table \in ProductTables : Len(table) < MaxRows}
    /\ recipes = <<>>
    /\ pim = <<>> /\ ri = <<>> /\ im = <<>>
    /\ old = [pim |-> pim, ri |-> ri, products |-> products]
    /\ lock = 0
    /\ NoRequests
    /\ prog \in [Workers -> {"mi", "mp"}]
    /\ pc = [w \in Workers |-> FirstPc(prog[w])]
    /\ NoLocals

ProductStep(w) ==
    \/ mi_Load(w) \/ mi_Clear(w) \/ mi_ClearCommit(w) \/ mi_Select(w)
    \/ mi_Product(w) \/ mi_Flush(w) \/ mi_FlushCommit(w) \/ mi_Final(w)
    \/ mi_FinalCommit(w)
    \/ mp_Clear(w) \/ mp_ClearCommit(w) \/ mp_Load(w) \/ mp_Select(w)
    \/ mp_Match(w) \/ mp_Insert(w) \/ mp_Commit(w)

Next2 ==
    \/ \E w \in Workers : ProductStep(w)
    \/ \E csv \in CsvFiles : load_data(csv)

Spec2 == Init2 /\ [][Next2]_vars

(***************************************************************************)
(* What a run has read and produced, as the properties below speak of it   *)
(***************************************************************************)
\* The run has left its matching loop, all of its records are in out
Matched(w) ==
    pc[w] \in {"mi_final_commit", "mp_insert", "mp_commit", "mr_insert", "mr_commit",
               "li_commit", "done"}

Finished(w) == prog[w] # "none" /\ pc[w] = "done"

NormalizeOf(p, s) ==
    CASE p = "mi" -> mi_normalize_ingredient_name(s)
      [] p = "mp" -> mp_normalize_ingredient_name(s)
      [] p = "mr" -> mr_normalize_ingredient_name(s)
      [] p = "li" -> li_normalize_ingredient_name(s)
      [] p = "lr" -> lr_normalize_ingredient_name(s)

\* The raw tags of a product row, as both product matchers cut them
RawTags(product) ==
    LET raw == Split(product.tags, {","})
    IN  [k \in 1..Len(raw) |-> Strip(raw[k])]

\* The <<source entity, mention>> pairs a product or link run works on
Mentions(w) ==
    IF prog[w] \in {"mi", "mp"}
    THEN UNION {{<<sel[w][k].code, tag>> : tag \in Range(RawTags(sel[w][k]))} :
                   k \in 1..Len(sel[w])}
    ELSE IF prog[w] = "li" THEN {<<tag, tag>> : tag \in Range(sel[w])}
    ELSE {}

Records(w) == Range(out[w])

NoDuplicatePairs(table) ==
    \A i, j \in 1..Len(table) : PairKey(table[i]) = PairKey(table[j]) => i = j

\* C2: in every matcher a mention whose normalised text is empty produces no
\* record: not in the JSON path, not in the raw path, not from a product tag
C2_EmptyMentionNeverMatched ==
    \A w \in Workers :
        Matched(w) =>
            /\ prog[w] = "mr" =>
                   \A k \in 1..Len(sel[w]) :
                       LET recipe == sel[w][k]
                           raw == IF recipe.raw = NoneVal THEN <<>>
                                  ELSE Split(recipe.raw, {"|"})
                       IN  /\ \A j \in 1..Len(recipe.json) :
                                  mr_normalize_ingredient_name(recipe.json[j].name) = <<>>
                                      => mr_match_json_item(recipe.id, recipe.json[j],
                                                            ingredient_map[w]) = <<>>
                           /\ \A j \in 1..Len(raw) :
                                  mr_normalize_ingredient_name(Strip(raw[j])) = <<>>
                                      => mr_match_raw_item(recipe.id, Strip(raw[j]),
                                                           ingredient_map[w]) = <<>>
            /\ prog[w] = "mp" =>
                   \A m \in Mentions(w) :
                       mp_normalize_ingredient_name(m[2]) = <<>>
                           => mp_match_tag(m[1], m[2], ingredient_map[w]) = <<>>
            /\ prog[w] = "mi" =>
                   \A k \in 1..Len(sel[w]) :
                       (\A tag \in Range(RawTags(sel[w][k])) :
                            mi_normalize_ingredient_name(tag) = <<>>)
                           => mi_match_product(sel[w][k], ings[w]) = <<>>
            /\ prog[w] = "li" =>
                   \A m \in Mentions(w) :
                       li_normalize_ingredient_name(m[2]) = <<>>
                           => li_map_tag(m[2], ingredient_map[w]) = <<>>

\* No other entry of the vocabulary has the normalised name of entry k
OnlyEntryOfItsKey(p, k) ==
    \A j \in 1..Len(ingredients) :
        NormalizeOf(p, ingredients[j].name) = NormalizeOf(p, ingredients[k].name)
            => j = k

\* C3: when the normalised mention equals the normalised name of a vocabulary
\* entry (the only entry with that normalised name), the run has emitted a
\* record from the mention's source entity to that entry's id, with method
\* exact and score 1.0
C3_ExactRecordForEveryEqualEntry ==
    \A w \in Workers :
        (Matched(w) /\ prog[w] \in {"mi", "mp", "li"}) =>
            \A m \in Mentions(w) : \A k \in 1..Len(ingredients) :
                (/\ NormalizeOf(prog[w], m[2]) # <<>>
                 /\ NormalizeOf(prog[w], m[2]) = NormalizeOf(prog[w], ingredients[k].name)
                 /\ OnlyEntryOfItsKey(prog[w], k)
                 /\ prog[w] = "li" => ingredients[k].source = "marmiton")
                    => \E r \in Records(w) :
                           /\ r.src = m[1] /\ r.ing = ingredients[k].id
                           /\ r.method = "exact" /\ r.score = One

\* C4: when a matching run has completed, its match table holds at most one
\* record per (source entity, ingredient) pair
C4_OneRecordPerPair ==
    \A w \in Workers :
        Finished(w) => NoDuplicatePairs(pim) /\ NoDuplicatePairs(ri)

\* A completed run that generated two records for one pair and stored one
C4_Witness ==
    /\ Finished(1)
    /\ ~NoDuplicatePairs(out[1])
    /\ pim \o ri # <<>>

\* C5: the records of the products the run does not process (products of the
\* table that its SELECT leaves out) are still in the table, unchanged, when
\* the run has finished
C5_OtherScopesKept ==
    \A w \in Workers :
        (Finished(w) /\ prog[w] \in {"mi", "mp"}) =>
            \A k \in 1..Len(old.pim) :
                (/\ \E j \in 1..Len(products) : products[j].code = old.pim[k].src
                 /\ \A j \in 1..Len(sel[w]) : sel[w][j].code # old.pim[k].src)
                    => old.pim[k] \in Range(pim)

\* The table a run writes, as committed
Committed(w) == IF prog[w] = "mr" THEN ri ELSE pim

\* The committed table is the de-duplicated content of the first n batches
IsBatchPrefix(w, n) ==
    Committed(w) = KeepFirst(Concat(SubSeq(batches[w], 1, n)), <<>>)

\* The records of source entity s in a sequence of records
Of(records, s) == SelectSeq2(records, LAMBDA r, x : r.src = x, s)

\* Each source entity has all of the records the run generated for it
\* committed, or none of them
WholeEntities(w) ==
    \A s \in {out[w][k].src : k \in 1..Len(out[w])} :
        \/ Of(Committed(w), s) = <<>>
        \/ Of(Committed(w), s) = KeepFirst(Of(out[w], s), <<>>)

\* C6 (as stated): at every point of a matching run past its first
\* statement, also after an abort, the
\* committed table is the de-duplicated content of a prefix of the batches
\* flushed so far, and no source entity is committed in part
C6_AlwaysBatchPrefix ==
    \A w \in Workers :
        (prog[w] \in {"mi", "mp", "mr"} /\ pc[w] # FirstPc(prog[w])) =>
            /\ \E n \in 0..Len(batches[w]) : IsBatchPrefix(w, n)
            /\ WholeEntities(w)

\* C6 (amended): the same from the commit of the run's DELETE on
C6_BatchPrefixOnceCleared ==
    \A w \in Workers :
        (prog[w] \in {"mi", "mp", "mr"} /\ cleared[w]) =>
            /\ \E n \in 0..Len(batches[w]) : IsBatchPrefix(w, n)
            /\ WholeEntities(w)

\* A run aborted with one batch committed and a later batch generated but
\* not committed
C6_Witness ==
    /\ pc[1] = "aborted"
    /\ Len(batches[1]) = 2
    /\ IsBatchPrefix(1, 1)
    /\ Committed(1) # <<>>
    /\ ~IsBatchPrefix(1, 2)

\* The ids of the vocabulary keys of run w that pass the partial test of its
\* matcher for the normalised mention
mp_candidates(w, normalized_tag) ==
    {ingredient_map[w][i][2] : i \in
        {j \in 1..Len(ingredient_map[w]) :
            mp_partial_test(ingredient_map[w][j][1], normalized_tag)}}

Min(S) == CHOOSE x \in S : \A y \in S : x <= y

\* C9: when several vocabulary keys pass the partial test for a mention, the
\* record goes to the candidate with the smallest ingredient id
C9_SmallestIdWins ==
    \A w \in Workers :
        (Matched(w) /\ prog[w] = "mp") =>
            \A m \in Mentions(w) :
                LET normalized_tag == mp_normalize_ingredient_name(m[2])
                    candidates == mp_candidates(w, normalized_tag)
                IN  (/\ normalized_tag # <<>>
                     /\ ~DictHas(ingredient_map[w], normalized_tag)
                     /\ candidates # {})
                        => \E r \in Records(w) :
                               /\ r.src = m[1] /\ r.method = "partial"
                               /\ r.ing = Min(candidates)
                               /\ mp_match_tag(m[1], m[2], ingredient_map[w]) = <<r>>

\* C10: a product whose one tag has the normalised name of a vocabulary
\* entry gets exactly one record, an exact one
C10_OnlyTheExactRecord ==
    \A w \in Workers :
        (Matched(w) /\ prog[w] \in {"mi", "mp"}) =>
            \A k \in 1..Len(sel[w]) :
                LET product == sel[w][k]
                    tags == RawTags(product)
                IN  (/\ Len(tags) = 1
                     /\ NormalizeOf(prog[w], tags[1]) # <<>>
                     /\ \E j \in 1..Len(ingredients) :
                            NormalizeOf(prog[w], ingredients[j].name)
                                = NormalizeOf(prog[w], tags[1]))
                        => /\ Len(Of(out[w], product.code)) <= 1
                           /\ \A r \in Range(Of(out[w], product.code)) :
                                  r.method = "exact"

Pairs(records) == {PairKey(records[k]) : k \in 1..Len(records)}

Codes(rows) == {rows[k].code : k \in 1..Len(rows)}

\* The batches of run w whose commit has been executed
CommittedBatches(w) ==
    IF pc[w] \in {"mi_flush_commit", "mi_final_commit", "mp_commit"}
    THEN SubSeq(batches[w], 1, Len(batches[w]) - 1)
    ELSE batches[w]

\* C7: while two runs work at the same time on disjoint sets of products, no
\* record that one of them has committed is removed by the other
C7_NoRemovalByTheOtherRun ==
    \A w, v \in Workers :
        (/\ w # v
         /\ Running(w) /\ Running(v)
         /\ sel[w] # <<>> /\ sel[v] # <<>>
         /\ Codes(sel[w]) \cap Codes(sel[v]) = {})
            => Pairs(Concat(CommittedBatches(w))) \subseteq Pairs(pim)

\* C8: two runs of the same matcher on the same vocabulary and the same
\* products generate the same sequence of records
C8_SameInputSameRecords ==
    (/\ Finished(1) /\ Finished(2)
     /\ prog[1] = prog[2]
     /\ sel[1] = sel[2])
        => out[1] = out[2]

(***************************************************************************)
(* The fuzzy pass                                                          *)
(***************************************************************************)
\* The candidates of the tag linker's fuzzy pass: the 30 entries of smallest id
li_candidates(w) == Take(SortById(ingredient_map[w]), li_TOP)

\* C11: a fuzzy record of the tag linker is for a best-scoring candidate, no
\* candidate of the fuzzy pass scores higher than the record's score
C11_FuzzyRecordIsBestScoring ==
    \A w \in Workers :
        (prog[w] = "li" /\ pc[w] \in {"li_commit", "done"}) =>
            \A k \in 1..Len(out[w]) :
                out[w][k].method = "fuzzy" =>
                    \A c \in 1..Len(li_candidates(w)) :
                        ~ScoreGreater(similarity_ratio(
                                          li_normalize_ingredient_name(out[w][k].src),
                                          li_candidates(w)[c][1]),
                                      out[w][k].score)

\* One string is contained in the other and the shorter one has at least n
\* characters
ContainmentOfLength(a, b, n) ==
    /\ Contains(a, b) \/ Contains(b, a)
    /\ Len(a) >= n /\ Len(b) >= n

\* C12: every partial record of the product matchers comes from a tag of the
\* product and a vocabulary entry of which one contains the other and the
\* shorter has at least 4 characters
C12_NoShortContainment ==
    \A w \in Workers :
        (Matched(w) /\ prog[w] \in {"mi", "mp"}) =>
            \A r \in Records(w) :
                r.method = "partial" =>
                    \E m \in Mentions(w), j \in 1..Len(ingredients) :
                        /\ m[1] = r.src
                        /\ ingredients[j].id = r.ing
                        /\ ContainmentOfLength(NormalizeOf(prog[w], m[2]),
                                               NormalizeOf(prog[w], ingredients[j].name), 4)

\* C14: every match record has a score between 0 and 1, the score is 1.0
\* exactly when the method is 'exact', and a partial record of the product
\* matchers, which test substring containment only, has score 0.8
C14_ScoreAgreesWithMethod ==
    \A w \in Workers :
        (Matched(w) /\ prog[w] \in {"mi", "mp", "li"}) =>
            \A r \in Records(w) :
                /\ ~ScoreGreater(Zero, r.score) /\ ~ScoreGreater(r.score, One)
                /\ r.score = One <=> r.method = "exact"
                /\ (prog[w] \in {"mi", "mp"} /\ r.method = "partial")
                       => r.score = PointEight

\* C15: in the batched product matcher a vocabulary entry that
\* is_simple_ingredient rejects gets no partial record, and gets an exact
\* record for every product one of whose tags normalises to its key
C15_FilterOnlyRestrictsFuzzy ==
    \A w \in Workers :
        (Matched(w) /\ prog[w] = "mi") =>
            \A j \in 1..Len(ingredients) :
                ~is_simple_ingredient(ingredients[j].name) =>
                    /\ \A r \in Records(w) :
                           r.ing = ingredients[j].id => r.method = "exact"
                    /\ \A m \in Mentions(w) :
                           (/\ mi_normalize_ingredient_name(m[2]) # <<>>
                            /\ mi_normalize_ingredient_name(m[2])
                                   = mi_normalize_ingredient_name(ingredients[j].name))
                               => MatchRecord(m[1], ingredients[j].id, One, "exact")
                                      \in Records(w)

(***************************************************************************)
(* Properties of the normalisers                                           *)
(***************************************************************************)
\* A language-prefixed tag: one colon, with letters and nothing else before it
IsPrefixedTag(s) ==
    /\ s # NoneVal
    /\ Cardinality({i \in 1..Len(s) : s[i] = ":"}) = 1
    /\ Find(s, ":") > 1
    /\ \A i \in 1..(Find(s, ":") - 1) : IsAlpha(s[i])

\* C16: each normaliser applied to product tags maps a language-prefixed tag
\* 'xx:v' to what it maps v to once the hyphens and underscores of v are
\* replaced by spaces
C16_PrefixStrippedSeparatorsFolded ==
    (/\ norm.variant \in {"mi", "mp", "li"}
     /\ Len(norm.history) >= 2
     /\ IsPrefixedTag(norm.history[1]))
        => norm.history[2] =
               NormalizeOf(norm.variant,
                           ReplaceAll(AfterFirst(norm.history[1], ":"), {"-", "_"}, " "))

\* Every whitespace character of s written twice
RECURSIVE DoubleSpaces(_)
DoubleSpaces(s) ==
    IF s = <<>> THEN <<>>
    ELSE (IF IsSpace(Head(s)) THEN <<Head(s), Head(s)>> ELSE <<Head(s)>>)
             \o DoubleSpaces(Tail(s))

\* No leading, trailing or doubled space
Tidy(s) ==
    /\ s # <<>> => s[1] # " " /\ s[Len(s)] # " "
    /\ \A i \in 1..(Len(s) - 1) : ~(s[i] = " " /\ s[i + 1] = " ")

\* C17: the result of a normaliser is the same for the string in lower
\* case, for the string between two spaces and for the string with every
\* whitespace run lengthened, and it has no leading, trailing or doubled space
C17_CaseAndWhitespaceInvariant ==
    (/\ norm.variant # "none"
     /\ Len(norm.history) >= 2
     /\ norm.history[1] # NoneVal)
        => /\ norm.history[2] = NormalizeOf(norm.variant, Lower(norm.history[1]))
           /\ norm.history[2] =
                  NormalizeOf(norm.variant, <<" ">> \o norm.history[1] \o <<" ">>)
           /\ norm.history[2] = NormalizeOf(norm.variant, DoubleSpaces(norm.history[1]))
           /\ Tidy(norm.history[2])

\* C18: no normaliser raises, and each returns the empty string for None
C18_NormalizeIsTotal ==
    (norm.variant # "none" /\ Len(norm.history) >= 2)
        => /\ norm.history[2] # Raised
           /\ norm.history[1] = NoneVal => norm.history[2] = <<>>

(***************************************************************************)
(* similarity_ratio applied to a pair of strings                           *)
(***************************************************************************)
\* At most this many words in an argument of similarity_ratio
MaxWords == 3

\* The arguments: the empty string and every sequence of up to MaxWords
\* words "x" or "y" joined by one space
SimStrings ==
    {<<>>} \cup
    UNION {{Join(ws, <<" ">>) : ws \in [1..n -> {<<"x">>, <<"y">>}]} : n \in 1..MaxWords}

InitSim ==
    /\ mode = "sim"
    /\ ingredients = <<>> /\ products = <<>> /\ recipes = <<>>
    /\ pim = <<>> /\ ri = <<>> /\ im = <<>> /\ old = [pim |-> <<>>, ri |-> <<>>, products |-> <<>>]
    /\ lock = 0
    /\ NoRequests
    /\ NoRuns
    /\ norm = [variant |-> "none", history |-> <<>>]
    /\ \E a, b \in SimStrings : call = [fn |-> "none", args |-> <<a, b>>, result |-> <<>>]

similarity_ratio_Call ==
    /\ mode = "sim"
    /\ call.fn = "none"
    /\ call' = [call EXCEPT !.fn = "similarity_ratio",
                            !.result = similarity_ratio(call.args[1], call.args[2])]
    /\ UNCHANGED << mode, ratevars, dbvars, runvars, norm >>

NextSim == similarity_ratio_Call

SpecSim == InitSim /\ [][NextSim]_vars

\* |words(a) & words(b)| / |words(a) | words(b)|
Jaccard(a, b) ==
    Fraction(Cardinality(Range(Words(a)) \cap Range(Words(b))),
             Cardinality(Range(Words(a)) \cup Range(Words(b))))

\* C13: for two non-empty strings of which one contains the other,
\* similarity_ratio returns at least their word-set Jaccard overlap
C13_ContainmentAtLeastJaccard ==
    (/\ call.fn = "similarity_ratio"
     /\ call.args[1] # <<>> /\ call.args[2] # <<>>
     /\ Contains(call.args[1], call.args[2]) \/ Contains(call.args[2], call.args[1]))
        => ~ScoreGreater(Jaccard(call.args[1], call.args[2]), call.result)

(***************************************************************************)
(* parse_ingredient applied to an ingredient line                          *)
(***************************************************************************)
\* The pieces the ingredient lines are made of: a quantity, a gap, a unit, an
\* article and a remainder, each of which may be missing
LineQuantities ==
    { <<>>,
      <<"2">>,
      <<"3", "5", "0">>,
      <<"1", ",", "5">>,
      <<"1", "/", "2">> }

LineGaps == { <<>>,
      <<" ">> }

LineUnits ==
    { <<>>,
      <<"g">>,
      <<"v", "e", "r", "r", "e">>,
      <<"V", "E", "R", "R", "E", "S">>,
      <<"b", "o", "U+00EE", "t", "e", "s">>,
      <<"c", "u", "i", "l", "l", "U+00E8", "r", "e", "s", " ", "U+00E0", " ", "s", "o", "u", "p", "e">> }

LineArticles ==
    { <<>>,
      <<" ", "d", "e", " ">>,
      <<" ", "d", "'">>,
      <<" ", "D", "'", " ">> }

LineRemainders ==
    { <<>>,
      <<"t", "h", "o", "n">>,
      <<"s", "a", "u", "c", "e">>,
      <<"l", "a", "i", "t">>,
      <<"o", "e", "u", "f", "s">>,
      <<"c", "h", "o", "u", "-", "f", "l", "e", "u", "r">>,
      <<"f", "a", "r", "i", "n", "e">>,
      <<"e", "a", "u">> }

IngredientLines ==
    {q \o g \o u \o a \o r : q \in LineQuantities, g \in LineGaps, u \in LineUnits,
                             a \in LineArticles, r \in LineRemainders}

InitParse ==
    /\ mode = "parse"
    /\ ingredients = <<>> /\ products = <<>> /\ recipes = <<>>
    /\ pim = <<>> /\ ri = <<>> /\ im = <<>> /\ old = [pim |-> <<>>, ri |-> <<>>, products |-> <<>>]
    /\ lock = 0
    /\ NoRequests
    /\ NoRuns
    /\ norm = [variant |-> "none", history |-> <<>>]
    /\ \E line \in IngredientLines : call = [fn |-> "none", args |-> <<line>>, result |-> <<>>]

parse_ingredient_Call ==
    /\ mode = "parse"
    /\ call.fn = "none"
    /\ call' = [call EXCEPT !.fn = "parse_ingredient",
                            !.result = parse_ingredient(call.args[1])]
    /\ UNCHANGED << mode, ratevars, dbvars, runvars, norm >>

NextParse == parse_ingredient_Call

SpecParse == InitParse /\ [][NextParse]_vars

\* The outcomes of the six patterns for a text, in the order of the code
Rules(text) ==
    << pattern1(text), pattern2(text), pattern3(text),
       pattern4(text), pattern5(text), pattern6(text) >>

\* The first pattern that matches, 0 if none does
FirstRule(text) ==
    IF \A k \in 1..6 : Rules(text)[k] = NoMatch THEN 0
    ELSE CHOOSE k \in 1..6 : /\ Rules(text)[k] # NoMatch
                             /\ \A j \in 1..(k - 1) : Rules(text)[j] = NoMatch

\* The examples of the parser: the line, its quantity, its unit and its name
CanonicalExamples ==
    { << <<"3", "5", "0", " ", "g", " ", "d", "e", " ", "t", "h", "o", "n">>,
         <<"3", "5", "0">>, <<"g">>, <<"t", "h", "o", "n">> >>,
      << <<"2", " ", "c", "u", "i", "l", "l", "U+00E8", "r", "e", "s", " ", "U+00E0", " ", "s", "o", "u", "p", "e", " ", "d", "e", " ", "s", "a", "u", "c", "e">>,
         <<"2">>, <<"c", "u", "i", "l", "l", "U+00E8", "r", "e", "s", " ", "U+00E0", " ", "s", "o", "u", "p", "e">>, <<"s", "a", "u", "c", "e">> >>,
      << <<"1", "/", "2", " ", "v", "e", "r", "r", "e", " ", "d", "e", " ", "l", "a", "i", "t">>,
         <<"1", "/", "2">>, <<"v", "e", "r", "r", "e">>, <<"l", "a", "i", "t">> >>,
      << <<"2", " ", "o", "e", "u", "f", "s">>,
         <<"2">>, <<>>, <<"o", "e", "u", "f", "s">> >>,
      << <<"1", "/", "2", " ", "c", "h", "o", "u", "-", "f", "l", "e", "u", "r">>,
         <<"1", "/", "2">>, <<>>, <<"c", "h", "o", "u", "-", "f", "l", "e", "u", "r">> >>,
      << <<"f", "a", "r", "i", "n", "e">>,
         <<>>, <<>>, <<"f", "a", "r", "i", "n", "e">> >> }

\* C19: parse_ingredient returns a record of four fields for every line, the
\* record holds the groups of the first of the six patterns that matches, or
\* the trimmed line as name when none matches, and the six examples get the
\* quantity, unit and name they are documented with
C19_FirstMatchingRule ==
    call.fn = "parse_ingredient" =>
        LET text == Strip(call.args[1])
            k == FirstRule(text)
        IN  /\ DOMAIN call.result = {"quantity", "unit", "name", "raw"}
            /\ call.result.raw = text
            /\ k = 0 => /\ call.result.quantity = <<>>
                        /\ call.result.unit = <<>>
                        /\ call.result.name = text
            /\ k # 0 => /\ call.result.quantity =
                               (IF k \in {3, 6} THEN Rules(text)[k][1]
                                ELSE ReplaceAll(Rules(text)[k][1], {","}, "."))
                        /\ call.result.unit = Strip(Rules(text)[k][2])
                        /\ call.result.name = Strip(Rules(text)[k][3])
            /\ \A e \in CanonicalExamples :
                   call.args[1] = e[1] =>
                       /\ call.result.quantity = e[2]
                       /\ call.result.unit = e[3]
                       /\ call.result.name = e[4]

\* A line that the first pattern rejects and the second accepts has been parsed
C19_Witness ==
    /\ call.fn = "parse_ingredient"
    /\ call.args[1] = <<"2", " ", "c", "u", "i", "l", "l", "U+00E8", "r", "e", "s", " ", "U+00E0", " ", "s", "o", "u", "p", "e", " ", "d", "e", " ", "s", "a", "u", "c", "e">>
    /\ FirstRule(Strip(call.args[1])) = 2
    /\ call.result.unit = <<"c", "u", "i", "l", "l", "U+00E8", "r", "e", "s", " ", "U+00E0", " ", "s", "o", "u", "p", "e">>
    /\ call.result.name = <<"s", "a", "u", "c", "e">>

\* C20: a line made of a number or a fraction, a cooking unit, the article
\* "de" or the elided article d' joined to the next word, and a remainder is
\* parsed into that unit and that remainder
C20_BothArticleForms ==
    call.fn = "parse_ingredient" =>
        \A q \in LineQuantities, u \in LineUnits, r \in LineRemainders,
           a \in {<<" ", "d", "e", " ">>, <<" ", "d", "'">>} :
            (/\ NumberLen(q) = Len(q) \/ FractionLen(q) = Len(q)
             /\ q # <<>> /\ r # <<>>
             /\ u # <<>> /\ CookingUnitLen(u) = Len(u)
             /\ call.args[1] = q \o <<" ">> \o u \o a \o r)
                => call.result.unit = u /\ call.result.name = r

\* C21: the raw field of the record parse_ingredient returns is its argument,
\* character for character
C21_RawIsTheInput ==
    call.fn = "parse_ingredient" => call.result.raw = call.args[1]

(***************************************************************************)
(* load_recipes_and_ingredients.py: the loader of the Marmiton CSV files   *)
(***************************************************************************)
AsciiUpper ==
    {"A", "B", "C", "D", "E", "F", "G", "H", "I", "J", "K", "L", "M", "N", "O",
     "P", "Q", "R", "S", "T", "U", "V", "W", "X", "Y", "Z"}

\* COLLATE NOCASE: SQLite folds the 26 upper-case letters of ASCII and no other
NoCase(s) == [i \in 1..Len(s) |-> IF s[i] \in AsciiUpper THEN LowerOf[s[i]] ELSE s[i]]

\* The uniqueness constraint of ingredients in schema.sql: a name that equals
\* a stored name up to case conflicts
ingredients_conflict(table, name) ==
    \E k \in 1..Len(table) : NoCase(table[k].name) = NoCase(name)

\* The uniqueness constraint of recipe_ingredients in schema.sql
ri_conflict(table, record) == HasPair(table, PairKey(record))

\* The id SQLite gives to a new row: one more than the largest id stored
NextId(table) ==
    IF table = <<>> THEN 1
    ELSE 1 + (CHOOSE m \in {table[k].id : k \in 1..Len(table)} :
                  \A k \in 1..Len(table) : table[k].id <= m)

\* SELECT id FROM ingredients WHERE name = ? COLLATE NOCASE and fetchone():
\* 0 stands for None
IngredientId(table, name) ==
    IF ingredients_conflict(table, name)
    THEN table[CHOOSE k \in 1..Len(table) : NoCase(table[k].name) = NoCase(name)].id
    ELSE 0

\* As UpsertIngredient with INSERT OR REPLACE: the stored row of the name is
\* deleted and a new row takes its place
ReplaceIngredient(table, name, image_url) ==
    LET kept == SelectSeq2(table, LAMBDA r, n : NoCase(r.name) # NoCase(n), name)
    IN  Append(kept, [id |-> NextId(table), name |-> name, source |-> "marmiton",
                      image |-> image_url])

\* INSERT INTO ingredients (name, image_url, source) VALUES (?, ?, 'marmiton')
\* ON CONFLICT(name) DO UPDATE SET image_url = excluded.image_url
UpsertIngredient(table, name, image_url) ==
    IF ingredients_conflict(table, name)
    THEN [k \in 1..Len(table) |->
             IF NoCase(table[k].name) = NoCase(name)
             THEN [table[k] EXCEPT !.image = image_url] ELSE table[k]]
    ELSE Append(table, [id |-> NextId(table), name |-> name, source |-> "marmiton",
                        image |-> image_url])

\* INSERT INTO ingredients (name, source) VALUES (?, source) with ON CONFLICT(name)
\* DO NOTHING, or INSERT OR IGNORE: the image URL of a new row is NULL
InsertIngredientOrIgnore(table, name, source) ==
    IF ingredients_conflict(table, name) THEN table
    ELSE Append(table, [id |-> NextId(table), name |-> name, source |-> source,
                        image |-> NoneVal])

\* The loop "for row in reader" of load_ingredients over the rows of the CSV
\* file, on the table and the dict built so far
RECURSIVE load_ingredients(_, _, _)
load_ingredients(table, map, rows) ==
    IF rows = <<>> THEN [ingredients |-> table, ingredient_map |-> map]
    ELSE LET name == Strip(Head(rows).name)
             image_url == Strip(Head(rows).image_url)
             stored == UpsertIngredient(table, name, image_url)
             result == IngredientId(stored, name)
         IN  IF name = <<>> THEN load_ingredients(table, map, Tail(rows))
             ELSE load_ingredients(stored,
                                   IF result # 0
                                   THEN DictSet(map, lr_normalize_ingredient_name(name), result)
                                   ELSE map,
                                   Tail(rows))

\* INSERT INTO recipe_ingredients ... ON CONFLICT(recipe_id, ingredient_id)
\* DO UPDATE SET quantity, unit, raw_text: the stored row keeps its place
UpsertRecipeIngredient(table, record) ==
    IF ri_conflict(table, record)
    THEN [k \in 1..Len(table) |->
             IF PairKey(table[k]) = PairKey(record) THEN record ELSE table[k]]
    ELSE Append(table, record)

\* INSERT INTO recipe_ingredients ... ON CONFLICT(recipe_id, ingredient_id)
\* DO NOTHING
InsertRecipeIngredientOrNothing(table, record) ==
    IF ri_conflict(table, record) THEN table ELSE Append(table, record)

\* INSERT INTO recipes ... ON CONFLICT(url) DO UPDATE SET every column
UpsertRecipe(table, row) ==
    IF \E k \in 1..Len(table) : table[k].url = row.url
    THEN [k \in 1..Len(table) |->
             IF table[k].url = row.url
             THEN [table[k] EXCEPT !.json = row.json, !.raw = row.raw] ELSE table[k]]
    ELSE Append(table, [id |-> NextId(table), url |-> row.url, json |-> row.json,
                        raw |-> row.raw])

\* SELECT id FROM recipes WHERE url = ?
RecipeId(table, url) ==
    table[CHOOSE k \in 1..Len(table) : table[k].url = url].id

\* One ingredient_data of the JSON list of recipe recipe_id: the relationship
\* of a known ingredient is upserted, an unknown ingredient is created on the
\* fly, put into the dict and its relationship inserted unless it is stored
lr_mention(state, recipe_id, ingredient_data) ==
    LET ingredient_name == Strip(ingredient_data.name)
        normalized_name == lr_normalize_ingredient_name(ingredient_name)
        ingredient_id == DictGet(state.ingredient_map, normalized_name)
        record(i) == RecipeRecord(recipe_id, i, ingredient_data.quantity,
                                  ingredient_data.unit, ingredient_data.raw)
        stored == InsertIngredientOrIgnore(state.ingredients, ingredient_name,
                                           "marmiton_recipe")
        result == IngredientId(stored, ingredient_name)
    IN  IF ingredient_name = <<>> THEN state
        ELSE IF ingredient_id # 0
        THEN [state EXCEPT !.ri = UpsertRecipeIngredient(@, record(ingredient_id)),
                           !.out = Append(@, record(ingredient_id))]
        ELSE IF result = 0 THEN [state EXCEPT !.ingredients = stored]
        ELSE [state EXCEPT !.ingredients = stored,
                           !.ingredient_map = DictSet(@, normalized_name, result),
                           !.ri = InsertRecipeIngredientOrNothing(@, record(result)),
                           !.out = Append(@, record(result))]

RECURSIVE lr_mentions(_, _, _)
lr_mentions(state, recipe_id, ingredients_list) ==
    IF ingredients_list = <<>> THEN state
    ELSE lr_mentions(lr_mention(state, recipe_id, Head(ingredients_list)),
                     recipe_id, Tail(ingredients_list))

\* The loop "for row in reader" of load_recipes over the rows of the CSV file
RECURSIVE load_recipes(_, _)
load_recipes(state, rows) ==
    IF rows = <<>> THEN state
    ELSE LET row == [Head(rows) EXCEPT !.name = Strip(@), !.url = Strip(@)]
             stored == UpsertRecipe(state.recipes, row)
         IN  IF row.name = <<>> \/ row.url = <<>>
             THEN load_recipes(state, Tail(rows))
             ELSE load_recipes(lr_mentions([state EXCEPT !.recipes = stored],
                                           RecipeId(stored, row.url), row.json),
                               Tail(rows))

\* The loop of load_marmiton_ingredients_to_db in link_ingredients.py:
\* INSERT OR IGNORE INTO ingredients (name, source) VALUES (?, 'marmiton')
RECURSIVE load_marmiton_ingredients_to_db(_, _)
load_marmiton_ingredients_to_db(table, sorted_ingredients) ==
    IF sorted_ingredients = <<>> THEN table
    ELSE load_marmiton_ingredients_to_db(
             InsertIngredientOrIgnore(table, Head(sorted_ingredients), "marmiton"),
             Tail(sorted_ingredients))

(***************************************************************************)
(* Two runs, one after the other, on one database: each is a run of the    *)
(* loader, of the linker or of a matcher                                   *)
(***************************************************************************)
\* The rows of a table of ingredients with their image_url column, NULL
WithImage(table) ==
    [k \in 1..Len(table) |->
        [id |-> table[k].id, name |-> table[k].name, source |-> table[k].source,
         image |-> NoneVal]]

\* No entry, one entry, or two entries of which one contains the other
SeqIngredientTables ==
    {WithImage(table) :
        table \in {t \in IngredientTables :
                      Len(t) <= 1 \/ {t[k].id : k \in 1..Len(t)} = {3, 5}}}

SeqProductTables == {table \in ProductTables : Len(table) <= 1}

\* The recipes table with its url column
SeqRecipeTables ==
    { <<>>,
      << [id |-> 1, url |-> <<"1">>,
          json |-> << [name |-> <<"a", "b", "c", "d">>, quantity |-> <<>>, unit |-> <<>>, raw |-> <<>>] >>,
          raw |-> <<"a", "b", "|", "l", "e", " ", "a", "b">>] >> }

\* The rows of marmiton_ingredients.csv the loader may be given
IngredientCsvs ==
    { <<>>,
      << [name |-> <<"a", "b">>, image_url |-> <<"u">>], [name |-> <<" ">>, image_url |-> <<>>] >>,
      << [name |-> <<" ", "A", "b">>, image_url |-> <<"v">>], [name |-> <<"b", "c">>, image_url |-> <<>>] >> }

\* The rows of marmiton_recipes.csv the loader may be given
RecipeCsvs ==
    { << [name |-> <<"r">>, url |-> <<"1">>,
          json |-> << [name |-> <<"b", "c">>, quantity |-> <<"1">>, unit |-> <<"g">>, raw |-> <<"1", " ", "g", " ", "b", "c">>],
                      [name |-> <<"B", "c", " ">>, quantity |-> <<"2">>, unit |-> <<>>, raw |-> <<"2", " ", "b", "c">>] >>,
          raw |-> <<>>] >>,
      << [name |-> <<"r">>, url |-> <<"1">>,
          json |-> << [name |-> <<"b", "c">>, quantity |-> <<"3">>, unit |-> <<>>, raw |-> <<"3", " ", "b", "c">>],
                      [name |-> <<" ">>, quantity |-> <<>>, unit |-> <<>>, raw |-> <<>>] >>,
          raw |-> <<>>],
         [name |-> <<>>, url |-> <<"2">>, json |-> <<>>, raw |-> <<>>] >>,
      << [name |-> <<"s">>, url |-> <<"2">>,
          json |-> << [name |-> <<"a", "b">>, quantity |-> <<>>, unit |-> <<>>, raw |-> <<"a", "b">>] >>,
          raw |-> <<"a", "b", "|", "l", "e", " ", "a", "b">>] >> }

\* The names extract_marmiton_ingredients may hand to the linker, most
\* frequent first
ExtractedIngredients == { <<>>, << <<"a", "b", "c">> >>, << <<"c", " ", "a", "b">>, <<"a", "b", "c">> >> }

\* load_ingredients, from the first row of the CSV file to conn.commit()
lr_LoadIngredients(w) ==
    /\ pc[w] = "lr_ingredients"
    /\ lock = 0
    /\ \E csv \in IngredientCsvs :
           LET loaded == load_ingredients(ingredients, <<>>, csv)
           IN  /\ ings' = [ings EXCEPT ![w] = csv]
               /\ ingredients' = loaded.ingredients
               /\ ingredient_map' = [ingredient_map EXCEPT ![w] = loaded.ingredient_map]
    /\ pc' = [pc EXCEPT ![w] = "lr_recipes"]
    /\ UNCHANGED << mode, ratevars, products, recipes, pim, ri, im, old, lock, norm, call, prog,
                    sel, idx, matches, txn, intxn, out, batches, cleared >>

\* load_recipes with the dict load_ingredients returned, from the first row
\* of the CSV file to conn.commit()
lr_LoadRecipes(w) ==
    /\ pc[w] = "lr_recipes"
    /\ lock = 0
    /\ \E csv \in RecipeCsvs :
           LET loaded == load_recipes([ingredients |-> ingredients, recipes |-> recipes,
                                       ri |-> ri, ingredient_map |-> ingredient_map[w],
                                       out |-> <<>>], csv)
           IN  /\ sel' = [sel EXCEPT ![w] = csv]
               /\ ingredients' = loaded.ingredients
               /\ recipes' = loaded.recipes
               /\ ri' = loaded.ri
               /\ ingredient_map' = [ingredient_map EXCEPT ![w] = loaded.ingredient_map]
               /\ out' = [out EXCEPT ![w] = loaded.out]
    /\ pc' = [pc EXCEPT ![w] = "done"]
    /\ UNCHANGED << mode, ratevars, products, pim, im, old, lock, norm, call, prog,
                    ings, idx, matches, txn, intxn, batches, cleared >>

\* main() of link_ingredients.py up to create_simple_mappings: it returns when
\* no ingredient was extracted, else load_marmiton_ingredients_to_db stores
\* the extracted names and commits
lm_Load(w) ==
    /\ pc[w] = "lm_load"
    /\ lock = 0
    /\ \E ingredients_count \in ExtractedIngredients :
           IF ingredients_count = <<>>
           THEN /\ pc' = [pc EXCEPT ![w] = "done"]
                /\ UNCHANGED ingredients
           ELSE /\ pc' = [pc EXCEPT ![w] = "li_load"]
                /\ ingredients' = load_marmiton_ingredients_to_db(ingredients, ingredients_count)
    /\ UNCHANGED << mode, ratevars, products, recipes, pim, ri, im, old, lock, norm, call, prog,
                    ings, ingredient_map, sel, idx, matches, txn, intxn, out, batches,
                    cleared >>

SeqPrograms == {"mi", "mp", "mr", "li", "lr"}

\* A link run starts with load_marmiton_ingredients_to_db, a load run with
\* load_ingredients
SeqFirstPc(p) ==
    CASE p = "li" -> "lm_load"
      [] p = "lr" -> "lr_ingredients"
      [] OTHER -> FirstPc(p)

InitSeq ==
    /\ mode = "seq"
    /\ ingredients \in SeqIngredientTables
    /\ products \in SeqProductTables
    /\ recipes \in SeqRecipeTables
    /\ pim = <<>> /\ ri = <<>> /\ im = <<>>
    /\ old = [pim |-> pim, ri |-> ri, products |-> products]
    /\ lock = 0
    /\ NoRequests
    /\ \E p \in SeqPrograms :
           /\ prog = [w \in Workers |-> IF w = 1 THEN p ELSE "none"]
           /\ pc = [w \in Workers |-> IF w = 1 THEN SeqFirstPc(p) ELSE "idle"]
    /\ NoLocals

\* The second run starts once the first has ended
StartSecond ==
    /\ mode = "seq"
    /\ pc[1] = "done"
    /\ pc[2] = "idle"
    /\ \E p \in SeqPrograms :
           /\ prog' = [prog EXCEPT ![2] = p]
           /\ pc' = [pc EXCEPT ![2] = SeqFirstPc(p)]
    /\ old' = [pim |-> pim, ri |-> ri, products |-> products]
    /\ UNCHANGED << mode, ratevars, ingredients, products, recipes, pim, ri, im, lock, norm, call,
                    ings, ingredient_map, sel, idx, matches, txn, intxn, out, batches,
                    cleared >>

SeqStep(w) ==
    \/ mi_Load(w) \/ mi_Clear(w) \/ mi_ClearCommit(w) \/ mi_Select(w)
    \/ mi_Product(w) \/ mi_Flush(w) \/ mi_FlushCommit(w) \/ mi_Final(w)
    \/ mi_FinalCommit(w)
    \/ mp_Clear(w) \/ mp_ClearCommit(w) \/ mp_Load(w) \/ mp_Select(w)
    \/ mp_Match(w) \/ mp_Insert(w) \/ mp_Commit(w)
    \/ mr_Clear(w) \/ mr_ClearCommit(w) \/ mr_Load(w) \/ mr_Select(w)
    \/ mr_Match(w) \/ mr_Insert(w) \/ mr_Commit(w)
    \/ lm_Load(w) \/ li_Load(w) \/ li_Tags(w) \/ li_Map(w) \/ li_Commit(w)
    \/ lr_LoadIngredients(w) \/ lr_LoadRecipes(w)

NextSeq == StartSecond \/ \E w \in Workers : SeqStep(w)

SpecSeq == InitSeq /\ [][NextSeq]_vars

(***************************************************************************)
(* Properties of the loader and of runs in sequence                        *)
(***************************************************************************)
\* The last record of a sequence of records with the pair key
LastOf(records, key) ==
    records[CHOOSE k \in 1..Len(records) :
                /\ PairKey(records[k]) = key
                /\ \A j \in (k + 1)..Len(records) : PairKey(records[j]) # key]

\* C22: when a load run has ended, the row of recipe_ingredients for a pair
\* (recipe, ingredient) holds the quantity, unit and raw text of the last
\* mention the run processed for that pair, whether the pair was stored
\* before the mention or not
C22_StoredRowIsTheMention ==
    \A w \in Workers :
        (mode = "seq" /\ prog[w] = "lr" /\ pc[w] = "done" /\ (w = 1 => pc[2] = "idle"))
            => \A k \in 1..Len(out[w]) :
                   LastOf(out[w], PairKey(out[w][k])) \in Range(ri)

\* The first record of a sequence of records with the pair key
FirstOf(records, key) ==
    records[CHOOSE k \in 1..Len(records) :
                /\ PairKey(records[k]) = key
                /\ \A j \in 1..(k - 1) : PairKey(records[j]) # key]

\* The table a run of script p writes its records to
TableOf(p) ==
    CASE p \in {"mi", "mp"} -> pim
      [] p \in {"mr", "lr"} -> ri
      [] p = "li" -> im

\* The run generated two records that differ for one pair
GeneratedTwice(w) ==
    \E j, k \in 1..Len(out[w]) :
        j < k /\ PairKey(out[w][j]) = PairKey(out[w][k]) /\ out[w][j] # out[w][k]

\* C23: when a matching or link run has ended, the stored row of every pair
\* it generated a record for is the first record it generated for that pair,
\* whether it writes with INSERT OR IGNORE or with INSERT OR REPLACE
C23_FirstGeneratedIsStored ==
    \A w \in Workers :
        (mode = "single" /\ Finished(w))
            => \A k \in 1..Len(out[w]) :
                   FirstOf(out[w], PairKey(out[w][k])) \in Range(TableOf(prog[w]))

\* A recipe run, which writes with INSERT OR REPLACE, has ended after
\* generating two different records for one pair
C23_Witness ==
    \E w \in Workers :
        mode = "single" /\ Finished(w) /\ prog[w] = "mr" /\ GeneratedTwice(w)

\* The second run is a run of the script of the first, on the same inputs:
\* the runs of SpecSeq leave the tables a matcher reads as they are, and a
\* load run reads its two CSV files
SameRunAgain ==
    /\ mode = "seq"
    /\ pc[2] = "done"
    /\ prog[2] = prog[1]
    /\ prog[2] = "lr" => (ings[2] = ings[1] /\ sel[2] = sel[1])

\* C24: when a matching or load run is run a second time on unchanged inputs,
\* the table it writes holds, after the second run, the rows it held after
\* the first
C24_SecondRunChangesNothing ==
    (SameRunAgain /\ prog[2] \in {"mi", "mp", "mr", "lr"})
        => Range(TableOf(prog[2])) =
               Range(IF prog[2] \in {"mi", "mp"} THEN old.pim ELSE old.ri)

\* The dict of run w is built: the run is past the statement that fills it
IndexBuilt(w) ==
    pc[w] \in {"mp_select", "mp_match", "mp_insert", "mp_commit",
               "mr_select", "mr_match", "mr_insert", "mr_commit",
               "li_tags", "li_map", "li_commit", "lr_recipes"}

\* C25: no step of a run changes the dict of the run once it is built
C25_IndexIsReadOnly ==
    [][\A w \in Workers : IndexBuilt(w) => ingredient_map'[w] = ingredient_map[w]]_vars

(***************************************************************************)
(* The dict of normalised names, built from a sequence of (id, name) rows  *)
(***************************************************************************)
\* At most this many rows in the sequence a dict is built from
MaxEntries == 3

\* Rows of which two have one name up to case, one has a prefixed name and
\* one a blank name
IndexEntries ==
    { [id |-> 1, name |-> <<"a", "b">>], [id |-> 2, name |-> <<"A", "B">>], [id |-> 3, name |-> <<" ">>],
      [id |-> 4, name |-> <<"b", " ", "c">>], [id |-> 5, name |-> <<"f", "r", ":", "a", "b">>] }

\* The sequences of up to MaxEntries different rows, in every order
EntrySequences ==
    UNION {{rows \in [1..n -> IndexEntries] :
               \A j, k \in 1..n : j # k => rows[j] # rows[k]} : n \in 0..MaxEntries}

InitIndex ==
    /\ mode = "index"
    /\ ingredients = <<>> /\ products = <<>> /\ recipes = <<>>
    /\ pim = <<>> /\ ri = <<>> /\ im = <<>> /\ old = [pim |-> <<>>, ri |-> <<>>, products |-> <<>>]
    /\ lock = 0
    /\ NoRequests
    /\ NoRuns
    /\ norm = [variant |-> "none", history |-> <<>>]
    /\ \E rows \in EntrySequences : call = [fn |-> "none", args |-> <<rows>>, result |-> <<>>]

mp_build_map_Call ==
    /\ mode = "index"
    /\ call.fn = "none"
    /\ call' = [call EXCEPT !.fn = "mp", !.result = mp_build_map(call.args[1])]
    /\ UNCHANGED << mode, ratevars, dbvars, runvars, norm >>

mr_build_map_Call ==
    /\ mode = "index"
    /\ call.fn = "none"
    /\ call' = [call EXCEPT !.fn = "mr", !.result = mr_build_map(call.args[1])]
    /\ UNCHANGED << mode, ratevars, dbvars, runvars, norm >>

li_build_map_Call ==
    /\ mode = "index"
    /\ call.fn = "none"
    /\ call' = [call EXCEPT !.fn = "li", !.result = li_build_map(call.args[1])]
    /\ UNCHANGED << mode, ratevars, dbvars, runvars, norm >>

NextIndex == mp_build_map_Call \/ mr_build_map_Call \/ li_build_map_Call

SpecIndex == InitIndex /\ [][NextIndex]_vars

\* The dict of a script has been built from the rows of call.args
Built == mode = "index" /\ call.fn \in {"mp", "mr", "li"}

\* The normalised name of row k, by the normaliser of the script
KeyOf(k) == NormalizeOf(call.fn, call.args[1][k].name)

\* C26: the keys of the built dict are the non-empty normalised names of the
\* rows, each key once, a row with an empty normalised name adds nothing,
\* and the value of a key is the id of the last row that normalises to it
C26_LastWriteWins ==
    Built =>
        LET rows == call.args[1]
            map == call.result
        IN  /\ {map[i][1] : i \in 1..Len(map)} = {KeyOf(k) : k \in 1..Len(rows)} \ {<<>>}
            /\ \A i, j \in 1..Len(map) : map[i][1] = map[j][1] => i = j
            /\ \A i \in 1..Len(map) :
                   \E k \in 1..Len(rows) :
                       /\ KeyOf(k) = map[i][1]
                       /\ map[i][2] = rows[k].id
                       /\ \A j \in (k + 1)..Len(rows) : KeyOf(j) # map[i][1]

\* A dict built from rows of which two normalise to one key and one to the
\* empty string
C26_Witness ==
    /\ Built
    /\ \E j, k \in 1..Len(call.args[1]) : j < k /\ KeyOf(j) = KeyOf(k) /\ KeyOf(j) # <<>>
    /\ \E k \in 1..Len(call.args[1]) : KeyOf(k) = <<>>

\* C27: a step of a load, link or matching run keeps every row of ingredients
\* with its id, its name and its source; only the image URL of a stored row
\* may change
C27_IngredientsOnlyGrow ==
    [][\A k \in 1..Len(ingredients) :
           \E j \in 1..Len(ingredients') :
               /\ ingredients'[j].id = ingredients[k].id
               /\ ingredients'[j].name = ingredients[k].name
               /\ ingredients'[j].source = ingredients[k].source]_vars

\* An ingredient created on the fly, with no image URL, has been given one by
\* a later load_ingredients and is still an ingredient of the recipes
C27_Witness ==
    /\ mode = "seq"
    /\ \E k \in 1..Len(ingredients) :
           /\ ingredients[k].source = "marmiton_recipe"
           /\ ingredients[k].image # NoneVal

\* C28: when the tag linker has mapped its tags, every fuzzy record has a
\* score of at least 3/4, and a tag without exact entry that has a candidate
\* of similarity 3/4 or more has a fuzzy record
C28_ThresholdIsInclusive ==
    \A w \in Workers :
        (mode = "single" /\ prog[w] = "li" /\ pc[w] \in {"li_commit", "done"}) =>
            /\ \A k \in 1..Len(out[w]) :
                   out[w][k].method = "fuzzy"
                       => ~ScoreGreater(Fraction(3, 4), out[w][k].score)
            /\ \A t \in 1..Len(sel[w]) :
                   LET off_normalized == li_normalize_ingredient_name(sel[w][t])
                   IN  (/\ Len(off_normalized) >= 2
                        /\ ~DictHas(ingredient_map[w], off_normalized)
                        /\ \E c \in 1..Len(li_candidates(w)) :
                               ~ScoreGreater(Fraction(3, 4),
                                             similarity_ratio(off_normalized,
                                                              li_candidates(w)[c][1])))
                           => \E k \in 1..Len(out[w]) :
                                  out[w][k].src = sel[w][t] /\ out[w][k].method = "fuzzy"

RATE_LIMIT_DELAY == 2

\* The clock is followed up to this tick
MaxTime == 6

\* RateLimiter(RATE_LIMIT_DELAY) with last_request = 0.0, at a time of day
\* later than the delay; asyncio.gather has scheduled the coroutines
InitRate ==
    /\ mode = "rate"
    /\ ingredients = <<>> /\ products = <<>> /\ recipes = <<>>
    /\ pim = <<>> /\ ri = <<>> /\ im = <<>> /\ old = [pim |-> <<>>, ri |-> <<>>, products |-> <<>>]
    /\ lock = 0
    /\ NoRuns
    /\ norm = [variant |-> "none", history |-> <<>>]
    /\ call = NoCall
    /\ now = RATE_LIMIT_DELAY
    /\ last_request = 0
    /\ co = [c \in Coroutines |-> [at |-> "wait", until |-> 0, sent |-> 0]]

\* fetch_page_async from "await rate_limiter.wait()" to its first suspension:
\* with elapsed < delay the coroutine is suspended in asyncio.sleep, else it
\* writes last_request and sends its request without being suspended
wait_Start(c) ==
    /\ mode = "rate"
    /\ co[c].at = "wait"
    /\ LET elapsed == now - last_request
       IN  IF elapsed < RATE_LIMIT_DELAY
           THEN /\ co' = [co EXCEPT ![c] = [at |-> "sleep",
                                            until |-> now + (RATE_LIMIT_DELAY - elapsed),
                                            sent |-> 0]]
                /\ UNCHANGED last_request
           ELSE /\ co' = [co EXCEPT ![c] = [at |-> "get", until |-> 0, sent |-> now]]
                /\ last_request' = now
    /\ UNCHANGED << mode, dbvars, runvars, norm, call, now >>

\* asyncio.sleep is over: the coroutine resumes, writes last_request and
\* sends its request
wait_Resume(c) ==
    /\ mode = "rate"
    /\ co[c].at = "sleep"
    /\ now >= co[c].until
    /\ co' = [co EXCEPT ![c] = [at |-> "get", until |-> 0, sent |-> now]]
    /\ last_request' = now
    /\ UNCHANGED << mode, dbvars, runvars, norm, call, now >>

\* The clock advances while the event loop waits or runs a coroutine
Tick ==
    /\ mode = "rate"
    /\ now < MaxTime
    /\ now' = now + 1
    /\ UNCHANGED << mode, dbvars, runvars, norm, call, last_request, co >>

NextRate == Tick \/ \E c \in Coroutines : wait_Start(c) \/ wait_Resume(c)

SpecRate == InitRate /\ [][NextRate]_vars

\* C30: two requests sent by coroutines that share a RateLimiter are at
\* least RATE_LIMIT_DELAY apart
C30_RequestsAreSpaced ==
    \A c, d \in Coroutines :
        (c # d /\ co[c].at = "get" /\ co[d].at = "get")
            => \/ co[c].sent - co[d].sent >= RATE_LIMIT_DELAY
               \/ co[d].sent - co[c].sent >= RATE_LIMIT_DELAY

====
